---- MODULE Spec2Model ----
(***************************************************************************)
(* Tool orchestration (backend/search_tools.py) and the conversational     *)
(* session store (SessionManager, backend/tests/test_session_manager.py).  *)
(*                                                                         *)
(* Two independent components share this module.  The session store is     *)
(* exercised by StoreSpec and PairsSpec, and by ConcurrentSpec and         *)
(* RaceSpec for callers that overlap; the tool registry by ToolsSpec,      *)
(* TracedSpec, AliasSpec, TurnsSpec and CriticalSpec, and by               *)
(* InterleavedSpec for requests that overlap; the tools' execute methods   *)
(* by FormatSpec.  Every specification leaves the other component in its   *)
(* constructed state.                                                      *)
(***************************************************************************)
EXTENDS Integers, Sequences, FiniteSets, TLC

VARIABLES
    max_history,    \* SessionManager.max_history
    sessions,       \* SessionManager.sessions: dict session_id -> list of messages
    issued,         \* history: every id create_session has returned so far
    appended,       \* history: per id, every message add_message ever appended
    nAdds,          \* history: number of add_message calls made (bounded by MaxAdds)
    tools,          \* ToolManager.tools: dict name -> tool, in insertion order
    last_sources,   \* per tool object: its last_sources attribute
    last_source_links, \* per tool object: its last_source_links attribute (NoAttr until set)
    sinceReset,     \* history: reset_sources ran and no execute has formatted results since
    producedIn,     \* history: per tool object, the request whose execute wrote its citations
    carried,        \* history: citations a request left behind by omitting reset_sources
    turn,           \* caller: number of the current request
    phase,          \* caller: position in the request cycle
    nDispatch,      \* caller: execute_tool calls made by the current request
    threads,        \* callers running concurrently: per thread its position in the
                    \* call it makes and its locals (the session_id drawn, the
                    \* message and slice of add_message, the lists a request read)
    call,           \* history: the last recorded tool call, its arguments, the store's
                    \* answer and the store methods it called (TracedSpec, FormatSpec)
    op,             \* the last call made: [name |-> ..., ...arguments]
    ret             \* its outcome: [kind |-> "ok", val |-> ...] or [kind |-> "raise", exc |-> ...]

svars == <<max_history, sessions, issued, appended, nAdds>>
tvars == <<tools, last_sources, last_source_links, sinceReset, producedIn, carried>>
cvars == <<turn, phase, nDispatch, call, threads>>
vars == <<max_history, sessions, issued, appended, nAdds, tools, last_sources,
          last_source_links, sinceReset, producedIn, carried, turn, phase,
          nDispatch, call, threads, op, ret>>

(***************************************************************************)
(* Bounds and input domains                                                *)
(***************************************************************************)
MaxAdds == 5              \* add_message calls per behaviour (StoreSpec)
MaxHistoryBound == 2      \* max_history is drawn from 0..MaxHistoryBound
MaxPairs == 3             \* (user, assistant) pairs appended in PairsSpec
MaxResults == 2           \* documents in one search result of the content store
MaxTurns == 2             \* requests per behaviour (TurnsSpec, CriticalSpec)
MaxDispatches == 1        \* execute_tool calls per request
MaxThreads == 3           \* threads calling create_session at once (ConcurrentSpec)

SessionIds == {"id1", "id2"}          \* the uuid4 tokens create_session can draw
\* The (role, content) pairs callers pass: the two dialogue roles, and a custom
\* role with empty content (role and content are open strings)
Inputs == {<<"user", "Hi">>, <<"assistant", "Hello">>, <<"system", "">>}

None == "None"            \* Python's None as a return value

Ok(v) == [kind |-> "ok", val |-> v]
Raise(e) == [kind |-> "raise", exc |-> e]

(***************************************************************************)
(* SessionManager                                                          *)
(***************************************************************************)
Message(role, content) == [role |-> role, content |-> content]

\* DropFirst as list[:-n]: the newest entries go, the oldest stay
DropLast(list, n) ==
    IF n >= Len(list) THEN <<>> ELSE SubSeq(list, 1, Len(list) - n)

\* list[n:] of Python: the empty list when n >= len(list)
DropFirst(list, n) ==
    IF n >= Len(list) THEN <<>> ELSE SubSeq(list, n + 1, Len(list))

\* Trimmed with the limit tested one entry too late
TrimmedLate(history, maxh) ==
    IF Len(history) > maxh * 2 + 1 THEN DropFirst(history, 2) ELSE history

\* Trimmed with >= for >
TrimmedEager(history, maxh) ==
    IF Len(history) >= maxh * 2 THEN DropFirst(history, 2) ELSE history

\* Trimmed dropping one entry for two
TrimmedOne(history, maxh) ==
    IF Len(history) > maxh * 2 THEN DropFirst(history, 1) ELSE history

\* Trimmed dropping three entries for two
TrimmedThree(history, maxh) ==
    IF Len(history) > maxh * 2 THEN DropFirst(history, 3) ELSE history

\* The list add_message leaves in sessions[session_id]
Trimmed(history, maxh) ==
    IF Len(history) > maxh * 2 THEN DropFirst(history, 2) ELSE history

\* SessionManager(max_history): no sessions
StoreInit ==
    /\ max_history \in 0..MaxHistoryBound
    /\ sessions = <<>>
    /\ issued = {}
    /\ appended = [i \in SessionIds |-> <<>>]
    /\ nAdds = 0

\* create_session drawing its id from the ids not in use, so that the id of a
\* deleted session can come back
create_session_reusing ==
    \E session_id \in SessionIds \ DOMAIN sessions :
        /\ sessions' = [i \in DOMAIN sessions \cup {session_id} |->
                            IF i = session_id THEN <<>> ELSE sessions[i]]
        /\ issued' = issued \cup {session_id}
        /\ op' = [name |-> "create_session"]
        /\ ret' = Ok(session_id)
        /\ UNCHANGED <<max_history, appended, nAdds>>

\* create_session: uuid4 is modelled as a token no earlier call has returned
create_session ==
    \E session_id \in SessionIds \ issued :
        /\ sessions' = [i \in DOMAIN sessions \cup {session_id} |->
                            IF i = session_id THEN <<>> ELSE sessions[i]]
        /\ issued' = issued \cup {session_id}
        /\ op' = [name |-> "create_session"]
        /\ ret' = Ok(session_id)
        /\ UNCHANGED <<max_history, appended, nAdds>>

\* add_message creating the session it does not find
add_message_creating(session_id, role, content) ==
    /\ nAdds' = nAdds + 1
    /\ op' = [name |-> "add_message", id |-> session_id]
    /\ sessions' = [i \in DOMAIN sessions \cup {session_id} |->
                        IF i = session_id
                        THEN Trimmed(Append(IF i \in DOMAIN sessions THEN sessions[i]
                                                                    ELSE <<>>,
                                            Message(role, content)), max_history)
                        ELSE sessions[i]]
    /\ appended' = [appended EXCEPT ![session_id] = Append(@, Message(role, content))]
    /\ ret' = Ok(None)
    /\ UNCHANGED <<max_history, issued>>

\* add_message accepting the two dialogue roles only
add_message_closed_roles(session_id, role, content) ==
    /\ nAdds' = nAdds + 1
    /\ op' = [name |-> "add_message", id |-> session_id]
    /\ IF session_id \notin DOMAIN sessions \/ role \notin {"user", "assistant"}
       THEN /\ ret' = Raise("ValueError")
            /\ UNCHANGED <<max_history, sessions, issued, appended>>
       ELSE /\ sessions' = [sessions EXCEPT ![session_id] =
                               Trimmed(Append(@, Message(role, content)), max_history)]
            /\ appended' = [appended EXCEPT ![session_id] =
                               Append(@, Message(role, content))]
            /\ ret' = Ok(None)
            /\ UNCHANGED <<max_history, issued>>

\* add_message appending to every session, not only to the one named
add_message_everywhere(session_id, role, content) ==
    /\ nAdds' = nAdds + 1
    /\ op' = [name |-> "add_message", id |-> session_id]
    /\ IF session_id \notin DOMAIN sessions
       THEN /\ ret' = Raise("ValueError")
            /\ UNCHANGED <<max_history, sessions, issued, appended>>
       ELSE /\ sessions' = [i \in DOMAIN sessions |->
                               Trimmed(Append(sessions[i], Message(role, content)),
                                       max_history)]
            /\ appended' = [i \in SessionIds |->
                               IF i \in DOMAIN sessions
                               THEN Append(appended[i], Message(role, content))
                               ELSE appended[i]]
            /\ ret' = Ok(None)
            /\ UNCHANGED <<max_history, issued>>

add_message(session_id, role, content) ==
    /\ nAdds' = nAdds + 1
    /\ op' = [name |-> "add_message", id |-> session_id]
    /\ IF session_id \notin DOMAIN sessions
       THEN /\ ret' = Raise("ValueError")
            /\ UNCHANGED <<max_history, sessions, issued, appended>>
       ELSE /\ sessions' = [sessions EXCEPT ![session_id] =
                               Trimmed(Append(@, Message(role, content)), max_history)]
            /\ appended' = [appended EXCEPT ![session_id] =
                               Append(@, Message(role, content))]
            /\ ret' = Ok(None)
            /\ UNCHANGED <<max_history, issued>>

get_session_history(session_id) ==
    /\ op' = [name |-> "get_session_history", id |-> session_id]
    /\ ret' = IF session_id \notin DOMAIN sessions
              THEN Raise("ValueError")
              ELSE Ok(sessions[session_id])
    /\ UNCHANGED svars

session_exists(session_id) ==
    /\ op' = [name |-> "session_exists", id |-> session_id]
    /\ ret' = Ok(session_id \in DOMAIN sessions)
    /\ UNCHANGED svars

\* delete_session emptying the history and keeping the key
delete_session_emptying(session_id) ==
    /\ op' = [name |-> "delete_session", id |-> session_id]
    /\ IF session_id \in DOMAIN sessions
       THEN /\ sessions' = [sessions EXCEPT ![session_id] = <<>>]
            /\ appended' = [appended EXCEPT ![session_id] = <<>>]
            /\ ret' = Ok(TRUE)
       ELSE /\ ret' = Ok(FALSE)
            /\ UNCHANGED <<sessions, appended>>
    /\ UNCHANGED <<max_history, issued, nAdds>>

delete_session(session_id) ==
    /\ op' = [name |-> "delete_session", id |-> session_id]
    /\ IF session_id \in DOMAIN sessions
       THEN /\ sessions' = [i \in DOMAIN sessions \ {session_id} |-> sessions[i]]
            /\ appended' = [appended EXCEPT ![session_id] = <<>>]
            /\ ret' = Ok(TRUE)
       ELSE /\ ret' = Ok(FALSE)
            /\ UNCHANGED <<sessions, appended>>
    /\ UNCHANGED <<max_history, issued, nAdds>>

\* clear_all_sessions emptying every history and keeping the keys
clear_all_sessions_histories ==
    /\ op' = [name |-> "clear_all_sessions"]
    /\ sessions' = [i \in DOMAIN sessions |-> <<>>]
    /\ appended' = [i \in SessionIds |-> <<>>]
    /\ ret' = Ok(None)
    /\ UNCHANGED <<max_history, issued, nAdds>>

clear_all_sessions ==
    /\ op' = [name |-> "clear_all_sessions"]
    /\ sessions' = <<>>
    /\ appended' = [i \in SessionIds |-> <<>>]
    /\ ret' = Ok(None)
    /\ UNCHANGED <<max_history, issued, nAdds>>

get_session_count ==
    /\ op' = [name |-> "get_session_count"]
    /\ ret' = Ok(Cardinality(DOMAIN sessions))
    /\ UNCHANGED svars

\* sep.join(lines)
RECURSIVE Join(_, _)
Join(lines, sep) ==
    IF lines = <<>> THEN ""
    ELSE IF Len(lines) = 1 THEN lines[1]
    ELSE lines[1] \o sep \o Join(Tail(lines), sep)

\* FormatHistory ending every line, the last one too, with a newline
FormatHistoryTrailing(history) ==
    Join([k \in 1..Len(history) |->
              history[k].role \o ": " \o history[k].content \o "\n"], "")

FormatHistory(history) ==
    Join([k \in 1..Len(history) |->
              history[k].role \o ": " \o history[k].content], "\n")

\* get_formatted_history reading a missing session as an empty history
get_formatted_history_lenient(session_id) ==
    /\ op' = [name |-> "get_formatted_history", id |-> session_id]
    /\ ret' = Ok(FormatHistory(IF session_id \in DOMAIN sessions
                               THEN sessions[session_id] ELSE <<>>))
    /\ UNCHANGED svars

get_formatted_history(session_id) ==
    /\ op' = [name |-> "get_formatted_history", id |-> session_id]
    /\ ret' = IF session_id \notin DOMAIN sessions
              THEN Raise("ValueError")
              ELSE Ok(FormatHistory(sessions[session_id]))
    /\ UNCHANGED svars

(***************************************************************************)
(* Content store (vector_store): the interface the tools consume           *)
(***************************************************************************)
\* dict.get(key, default)
Get(d, key, default) == IF key \in DOMAIN d THEN d[key] ELSE default

\* Python truthiness of an optional string
Truthy(x) == x # None /\ x # ""

\* (document, metadata) pairs the store holds; a metadata without
\* lesson_number is a chunk that belongs to no lesson
Chunks ==
    { [doc |-> "Doc B", meta |-> [course_title |-> "MCP", lesson_number |-> 1]],
      [doc |-> "Doc C", meta |-> [course_title |-> "Intro"]] }

\* All sequences over S of length at most n
RECURSIVE SeqsUpTo(_, _)
SeqsUpTo(S, n) ==
    IF n = 0 THEN {<<>>}
    ELSE LET shorter == SeqsUpTo(S, n - 1)
         IN  shorter \cup {Append(q, x) : q \in shorter, x \in S}

\* What store.search can answer: index-aligned documents and metadata, and
\* an error that is None or a message (with or without documents)
SearchAnswers ==
    [error : {None}, chunks : SeqsUpTo(Chunks, MaxResults)]
    \cup [error : {"Search failed"}, chunks : SeqsUpTo(Chunks, 1)]

\* The answer of a call that never reaches the store
NoAnswer == [error |-> None, chunks |-> <<>>]

\* SearchResults.is_empty
is_empty(results) == Len(results.chunks) = 0

get_lesson_link(course_title, lesson_number) ==
    IF course_title = "MCP" /\ lesson_number = 0 THEN "https://mcp/0"
    ELSE IF course_title = "MCP" /\ lesson_number = 1 THEN ""
    ELSE None

get_course_link(course_title) ==
    IF course_title = "MCP" THEN "https://mcp" ELSE None

\* get_course_by_title found nothing
NoCourse == [found |-> FALSE]

\* The title is resolved by the store; "Nope" resolves to nothing
get_course_by_title(course_title) ==
    IF course_title = "MCP"
    THEN [title |-> "MCP", link |-> "https://mcp", instructor |-> "Ada",
          lessons |-> << [number |-> 0, title |-> "Start", link |-> "https://mcp/0"],
                         [number |-> 1, title |-> "Next"] >>]
    ELSE IF course_title = "Intro"
    THEN [title |-> "Intro", lessons |-> <<>>]
    ELSE NoCourse

get_all_course_titles == <<"MCP", "Intro">>

(***************************************************************************)
(* Tools                                                                   *)
(***************************************************************************)
\* The tool objects of a run: one search tool, two outline tools, and two
\* objects of other Tool subclasses, one whose definition has no "name" key
\* and one whose name is the empty string
Instances == {"search1", "outline1", "outline2", "unnamed1", "blank1"}

ClassOf(t) ==
    IF t = "search1" THEN "CourseSearchTool"
    ELSE IF t \in {"outline1", "outline2"} THEN "CourseOutlineTool"
    ELSE IF t = "unnamed1" THEN "UnnamedTool"
    ELSE "BlankTool"

\* An attribute of a tool object: missing, or holding a list
NoAttr == [set |-> FALSE, val |-> <<>>]
Attr(v) == [set |-> TRUE, val |-> v]

NoCitations == [sources |-> <<>>, links |-> <<>>]

\* get_tool_definition, reduced to the name and the parameter names
get_tool_definition(t) ==
    IF ClassOf(t) = "CourseSearchTool"
    THEN [name |-> "search_course_content",
          properties |-> {"query", "course_name", "lesson_number"},
          required |-> {"query"}]
    ELSE IF ClassOf(t) = "CourseOutlineTool"
    THEN [name |-> "get_course_outline",
          properties |-> {"course_title"},
          required |-> {"course_title"}]
    ELSE IF ClassOf(t) = "UnnamedTool"
    THEN [properties |-> {}, required |-> {}]
    ELSE [name |-> "", properties |-> {}, required |-> {}]

\* Keyword arguments the reasoning engine passes to execute_tool: a search
\* with and without a course filter, a search without the required query,
\* and outline requests for a course with a link, one without, and one the
\* store cannot resolve
SearchParams ==
    { [query |-> "q"], [query |-> "q", course_name |-> "MCP"], [course_name |-> "MCP"] }

OutlineParams == { [course_title |-> "MCP"], [course_title |-> "Intro"],
                   [course_title |-> "Nope"] }

Params == SearchParams \cup OutlineParams

\* Binds that rejects unknown keywords and lets a missing required one pass
BindsKnownOnly(t, params) ==
    DOMAIN params \subseteq get_tool_definition(t).properties

\* Python binds **kwargs to the signature of execute before its body runs
Binds(t, params) ==
    /\ get_tool_definition(t).required \subseteq DOMAIN params
    /\ DOMAIN params \subseteq get_tool_definition(t).properties

\* Header testing the lesson number for truthiness: lesson 0 gets no segment
HeaderTruthy(meta) ==
    LET course_title == Get(meta, "course_title", "unknown")
    IN  IF "lesson_number" \in DOMAIN meta /\ meta.lesson_number # 0
        THEN "[" \o course_title \o " - Lesson " \o ToString(meta.lesson_number) \o "]"
        ELSE "[" \o course_title \o "]"

\* CourseSearchTool._format_results, per (doc, meta) pair
Header(meta) ==
    LET course_title == Get(meta, "course_title", "unknown")
    IN  IF "lesson_number" \in DOMAIN meta
        THEN "[" \o course_title \o " - Lesson " \o ToString(meta.lesson_number) \o "]"
        ELSE "[" \o course_title \o "]"

Source(meta) ==
    LET course_title == Get(meta, "course_title", "unknown")
    IN  IF "lesson_number" \in DOMAIN meta
        THEN course_title \o " - Lesson " \o ToString(meta.lesson_number)
        ELSE course_title

\* Link testing the lesson number for truthiness: no lesson link for lesson 0
LinkTruthyLesson(meta) ==
    LET course_title == Get(meta, "course_title", "unknown")
        link == IF "lesson_number" \in DOMAIN meta /\ meta.lesson_number # 0
                THEN get_lesson_link(course_title, meta.lesson_number)
                ELSE None
    IN  IF ~Truthy(link) THEN get_course_link(course_title) ELSE link

Link(meta) ==
    LET course_title == Get(meta, "course_title", "unknown")
        link == IF "lesson_number" \in DOMAIN meta
                THEN get_lesson_link(course_title, meta.lesson_number)
                ELSE None
    IN  IF ~Truthy(link) THEN get_course_link(course_title) ELSE link

\* What an execute call leaves behind: the value returned (or the exception),
\* the number of result blocks it formatted, and the tool's two attributes
Outcome(kind, text, blocks, sources, links) ==
    [kind |-> kind, text |-> text, blocks |-> blocks,
     last_sources |-> sources, last_source_links |-> links]

\* _format_results collecting the labels in reverse order of the blocks
_format_results_reversed(results) ==
    LET n == Len(results.chunks)
        formatted == [k \in 1..n |->
                         Header(results.chunks[k].meta) \o "\n" \o results.chunks[k].doc]
        sources == [k \in 1..n |-> Source(results.chunks[n + 1 - k].meta)]
        source_links == [k \in 1..n |-> Link(results.chunks[k].meta)]
    IN  Outcome("formatted", Join(formatted, "\n\n"), n,
                Attr(sources), Attr(source_links))

\* CourseSearchTool._format_results
_format_results(results) ==
    LET n == Len(results.chunks)
        formatted == [k \in 1..n |->
                         Header(results.chunks[k].meta) \o "\n" \o results.chunks[k].doc]
        sources == [k \in 1..n |-> Source(results.chunks[k].meta)]
        source_links == [k \in 1..n |-> Link(results.chunks[k].meta)]
    IN  Outcome("formatted", Join(formatted, "\n\n"), n,
                Attr(sources), Attr(source_links))

\* The text of the empty-result branch
NoContentText(params) ==
    LET course_info == IF Truthy(Get(params, "course_name", None))
                       THEN " in course '" \o params.course_name \o "'"
                       ELSE ""
        lesson_info == IF "lesson_number" \in DOMAIN params /\ params.lesson_number # 0
                       THEN " in lesson " \o ToString(params.lesson_number)
                       ELSE ""
    IN  "No relevant content found" \o course_info \o lesson_info \o "."

\* SearchExecute with the error and empty branches emptying the attributes
SearchExecuteClearing(sources, links, params, results) ==
    IF Truthy(results.error)
    THEN Outcome("returned", results.error, 0, Attr(<<>>), Attr(<<>>))
    ELSE IF is_empty(results)
    THEN Outcome("returned", NoContentText(params), 0, Attr(<<>>), Attr(<<>>))
    ELSE _format_results(results)

\* SearchExecute testing emptiness before the error
SearchExecuteEmptyFirst(sources, links, params, results) ==
    IF is_empty(results)
    THEN Outcome("returned", NoContentText(params), 0, sources, links)
    ELSE IF Truthy(results.error)
    THEN Outcome("returned", results.error, 0, sources, links)
    ELSE _format_results(results)

\* CourseSearchTool.execute on a tool whose attributes are sources and links
SearchExecute(sources, links, params, results) ==
    IF Truthy(results.error)
    THEN Outcome("returned", results.error, 0, sources, links)
    ELSE IF is_empty(results)
    THEN Outcome("returned", NoContentText(params), 0, sources, links)
    ELSE _format_results(results)

\* LessonLines testing the link for truthiness only: the default gets a sub-line
LessonLinesSentinel(lesson) ==
    LET lesson_link == Get(lesson, "link", "No link available")
        line == "  " \o ToString(lesson.number) \o ". " \o Get(lesson, "title", "No title")
    IN  IF Truthy(lesson_link)
        THEN <<line, "     Link: " \o lesson_link>>
        ELSE <<line>>

\* The lines of one lesson in the outline
LessonLines(lesson) ==
    LET lesson_link == Get(lesson, "link", "No link available")
        line == "  " \o ToString(lesson.number) \o ". " \o Get(lesson, "title", "No title")
    IN  IF Truthy(lesson_link) /\ lesson_link # "No link available"
        THEN <<line, "     Link: " \o lesson_link>>
        ELSE <<line>>

RECURSIVE AllLessonLines(_)
AllLessonLines(lessons) ==
    IF lessons = <<>> THEN <<>>
    ELSE LessonLines(Head(lessons)) \o AllLessonLines(Tail(lessons))

\* CourseOutlineTool._format_course_outline
_format_course_outline(course_info) ==
    LET course_title == Get(course_info, "title", "Unknown Course")
        course_link == Get(course_info, "link", "No link available")
        instructor == Get(course_info, "instructor", "Unknown instructor")
        lessons == Get(course_info, "lessons", <<>>)
        head == << "**Course:** " \o course_title,
                   "**Instructor:** " \o instructor,
                   "**Course Link:** " \o course_link,
                   "" >>
        body == IF lessons # <<>>
                THEN <<"**Lessons:**">> \o AllLessonLines(lessons)
                     \o <<"", "**Total Lessons:** " \o ToString(Len(lessons))>>
                ELSE <<"**No lessons available**">>
    IN  Outcome("formatted", Join(head \o body, "\n"), 1,
                Attr(<<course_title>>), Attr(<<course_link>>))

\* OutlineExecute adding its citation to the ones the tool holds
OutlineExecuteAppending(sources, links, params) ==
    LET course_info == get_course_by_title(params.course_title)
        out == _format_course_outline(course_info)
    IN  IF course_info = NoCourse
        THEN Outcome("returned",
                     "Course '" \o params.course_title
                         \o "' not found. Available courses: "
                         \o Join(get_all_course_titles, ", "),
                     0, sources, links)
        ELSE Outcome("formatted", out.text, 1,
                     Attr(sources.val \o out.last_sources.val),
                     Attr(links.val \o out.last_source_links.val))

\* OutlineExecute raising for a course the store cannot resolve
OutlineExecuteRaising(sources, links, params) ==
    LET course_info == get_course_by_title(params.course_title)
    IN  IF course_info = NoCourse
        THEN Outcome("raised", "KeyError", 0, sources, links)
        ELSE _format_course_outline(course_info)

\* CourseOutlineTool.execute
OutlineExecute(sources, links, params) ==
    LET course_info == get_course_by_title(params.course_title)
    IN  IF course_info = NoCourse
        THEN Outcome("returned",
                     "Course '" \o params.course_title
                         \o "' not found. Available courses: "
                         \o Join(get_all_course_titles, ", "),
                     0, sources, links)
        ELSE _format_course_outline(course_info)

\* tool.execute(**params) for tool object t; results is the store's answer
Execute(t, params, results) ==
    IF ~Binds(t, params)
    THEN Outcome("raised", "TypeError", 0, last_sources[t], last_source_links[t])
    ELSE IF ClassOf(t) = "CourseSearchTool"
    THEN SearchExecute(last_sources[t], last_source_links[t], params, results)
    ELSE OutlineExecute(last_sources[t], last_source_links[t], params)

\* The store methods _format_results calls for one (doc, meta) pair, in order
LinkCalls(meta) ==
    LET course_title == Get(meta, "course_title", "unknown")
        lesson == IF "lesson_number" \in DOMAIN meta
                  THEN << [method |-> "get_lesson_link", course_title |-> course_title,
                           lesson_number |-> meta.lesson_number] >>
                  ELSE <<>>
        link == IF "lesson_number" \in DOMAIN meta
                THEN get_lesson_link(course_title, meta.lesson_number)
                ELSE None
    IN  IF ~Truthy(link)
        THEN lesson \o << [method |-> "get_course_link", course_title |-> course_title] >>
        ELSE lesson

RECURSIVE AllLinkCalls(_)
AllLinkCalls(chunks) ==
    IF chunks = <<>> THEN <<>>
    ELSE LinkCalls(Head(chunks).meta) \o AllLinkCalls(Tail(chunks))

\* The store methods tool.execute(**params) calls on tool object t, in order
StoreCalls(t, params, results) ==
    IF ~Binds(t, params) THEN <<>>
    ELSE IF ClassOf(t) = "CourseSearchTool"
    THEN << [method |-> "search"] >>
         \o (IF Truthy(results.error) \/ is_empty(results) THEN <<>>
             ELSE AllLinkCalls(results.chunks))
    ELSE << [method |-> "get_course_by_title"] >>
         \o (IF get_course_by_title(params.course_title) = NoCourse
             THEN << [method |-> "get_all_course_titles"] >>
             ELSE <<>>)

(***************************************************************************)
(* ToolManager                                                             *)
(***************************************************************************)
\* ToolManager(): no tools; every tool object as its __init__ leaves it
ToolsInit ==
    /\ tools = <<>>
    /\ last_sources = [t \in Instances |-> Attr(<<>>)]
    /\ last_source_links = [t \in Instances |-> NoAttr]
    /\ sinceReset = FALSE
    /\ producedIn = [t \in Instances |-> 0]
    /\ carried = NoCitations

Names(d) == {d[k].name : k \in 1..Len(d)}

\* d[name] of a dict kept as its sequence of (name, tool) items
Lookup(d, name) == (CHOOSE k \in 1..Len(d) : d[k].name = name)

\* DictSet as a list append: a name registered twice gets two entries
DictSetAppend(d, name, t) == Append(d, [name |-> name, tool |-> t])

\* d[name] = t: a new key goes last, an existing key keeps its place
DictSet(d, name, t) ==
    IF name \in Names(d)
    THEN [k \in 1..Len(d) |-> IF d[k].name = name THEN [name |-> name, tool |-> t]
                                                  ELSE d[k]]
    ELSE Append(d, [name |-> name, tool |-> t])

\* The tool objects in self.tools.values()
Registered == {tools[k].tool : k \in 1..Len(tools)}

\* The attribute values of the registered tools, in dict order
Values(attr) == [k \in 1..Len(tools) |-> attr[tools[k].tool]]

\* The scan of get_last_sources, taking the last truthy list
RECURSIVE LastTruthy(_)
LastTruthy(attrs) ==
    IF attrs = <<>> THEN <<>>
    ELSE IF attrs[Len(attrs)].set /\ attrs[Len(attrs)].val # <<>>
    THEN attrs[Len(attrs)].val
    ELSE LastTruthy(SubSeq(attrs, 1, Len(attrs) - 1))

\* The scan of get_last_sources and get_last_source_links: the first list that
\* exists and is not empty, else []
RECURSIVE FirstTruthy(_)
FirstTruthy(attrs) ==
    IF attrs = <<>> THEN <<>>
    ELSE IF Head(attrs).set /\ Head(attrs).val # <<>> THEN Head(attrs).val
    ELSE FirstTruthy(Tail(attrs))

\* reset_sources that leaves the attribute as it is
ClearedNot(attr) == attr

\* reset_sources on one attribute of one tool
Cleared(attr) == IF attr.set THEN Attr(<<>>) ELSE attr

\* What the registry would return for labels and links
LastCitations ==
    [sources |-> FirstTruthy(Values(last_sources)),
     links |-> FirstTruthy(Values(last_source_links))]

\* register_tool rejecting a missing name only, not an empty one
register_tool_missing_only(t) ==
    LET tool_def == get_tool_definition(t)
        tool_name == Get(tool_def, "name", None)
    IN  /\ op' = [name |-> "register_tool", tool |-> t]
        /\ IF tool_name = None
           THEN /\ ret' = Raise("ValueError")
                /\ UNCHANGED tvars
           ELSE /\ tools' = DictSet(tools, tool_name, t)
                /\ ret' = Ok(None)
                /\ carried' = NoCitations
                /\ UNCHANGED <<last_sources, last_source_links, sinceReset, producedIn>>

register_tool(t) ==
    LET tool_def == get_tool_definition(t)
        tool_name == Get(tool_def, "name", None)
    IN  /\ op' = [name |-> "register_tool", tool |-> t]
        /\ IF ~Truthy(tool_name)
           THEN /\ ret' = Raise("ValueError")
                /\ UNCHANGED tvars
           ELSE /\ tools' = DictSet(tools, tool_name, t)
                /\ ret' = Ok(None)
                /\ carried' = NoCitations
                /\ UNCHANGED <<last_sources, last_source_links, sinceReset, producedIn>>

\* get_tool_definitions emptying the citations of the tools it visits
get_tool_definitions_clearing ==
    /\ op' = [name |-> "get_tool_definitions"]
    /\ ret' = Ok([k \in 1..Len(tools) |-> get_tool_definition(tools[k].tool)])
    /\ last_sources' = [t \in Instances |->
            IF t \in Registered THEN Attr(<<>>) ELSE last_sources[t]]
    /\ UNCHANGED <<tools, last_source_links, sinceReset, producedIn, carried>>

get_tool_definitions ==
    /\ op' = [name |-> "get_tool_definitions"]
    /\ ret' = Ok([k \in 1..Len(tools) |-> get_tool_definition(tools[k].tool)])
    /\ UNCHANGED tvars

\* self.tools[tool_name].execute(**kwargs) on tool object t
Executes(t, params, results) ==
    \E out \in {Execute(t, params, results)} :
        /\ op' = [name |-> "execute_tool", tool |-> t, blocks |-> out.blocks, outcome |-> out.kind]
        /\ ret' = IF out.kind = "raised" THEN Raise(out.text) ELSE Ok(out.text)
        /\ last_sources' = [last_sources EXCEPT ![t] = out.last_sources]
        /\ last_source_links' = [last_source_links EXCEPT ![t] = out.last_source_links]
        /\ IF out.kind = "formatted"
           THEN /\ producedIn' = [producedIn EXCEPT ![t] = turn]
                /\ sinceReset' = FALSE
                /\ carried' = NoCitations
           ELSE UNCHANGED <<producedIn, sinceReset, carried>>
        /\ UNCHANGED tools

\* Whether tool_name names a search tool whose execute body will run, so that
\* the store's search is called
Searches(tool_name, params) ==
    /\ tool_name \in Names(tools)
    /\ ClassOf(tools[Lookup(tools, tool_name)].tool) = "CourseSearchTool"
    /\ Binds(tools[Lookup(tools, tool_name)].tool, params)

\* execute_tool raising KeyError for a name that is not registered
execute_tool_raising(tool_name, params, results) ==
    IF tool_name \notin Names(tools)
    THEN /\ op' = [name |-> "execute_tool", tool |-> "none", blocks |-> 0,
                   outcome |-> "raised"]
         /\ ret' = Raise("KeyError")
         /\ UNCHANGED tvars
    ELSE Executes(tools[Lookup(tools, tool_name)].tool, params, results)

\* execute_tool forwarding every registered name to the first registered tool
execute_tool_first(tool_name, params, results) ==
    IF tool_name \notin Names(tools)
    THEN /\ op' = [name |-> "execute_tool", tool |-> "none", blocks |-> 0,
                   outcome |-> "returned"]
         /\ ret' = Ok("Tool '" \o tool_name \o "' not found")
         /\ UNCHANGED tvars
    ELSE Executes(tools[1].tool, params, results)

execute_tool(tool_name, params, results) ==
    IF tool_name \notin Names(tools)
    THEN /\ op' = [name |-> "execute_tool", tool |-> "none", blocks |-> 0,
                   outcome |-> "returned"]
         /\ ret' = Ok("Tool '" \o tool_name \o "' not found")
         /\ UNCHANGED tvars
    ELSE Executes(tools[Lookup(tools, tool_name)].tool, params, results)

get_last_sources ==
    /\ op' = [name |-> "get_last_sources"]
    /\ ret' = Ok(FirstTruthy(Values(last_sources)))
    /\ UNCHANGED tvars

get_last_source_links ==
    /\ op' = [name |-> "get_last_source_links"]
    /\ ret' = Ok(FirstTruthy(Values(last_source_links)))
    /\ UNCHANGED tvars

\* reset_sources emptying the labels and leaving the links
reset_sources_labels_only ==
    /\ op' = [name |-> "reset_sources"]
    /\ ret' = Ok(None)
    /\ last_sources' = [t \in Instances |->
            IF t \in Registered THEN Cleared(last_sources[t]) ELSE last_sources[t]]
    /\ producedIn' = [t \in Instances |-> IF t \in Registered THEN 0 ELSE producedIn[t]]
    /\ sinceReset' = TRUE
    /\ carried' = NoCitations
    /\ UNCHANGED <<tools, last_source_links>>

\* reset_sources clearing only the citations the running request produced
reset_sources_own ==
    /\ op' = [name |-> "reset_sources"]
    /\ ret' = Ok(None)
    /\ last_sources' = [t \in Instances |->
            IF t \in Registered /\ producedIn[t] = turn THEN Cleared(last_sources[t])
            ELSE last_sources[t]]
    /\ last_source_links' = [t \in Instances |->
            IF t \in Registered /\ producedIn[t] = turn
            THEN Cleared(last_source_links[t])
            ELSE last_source_links[t]]
    /\ producedIn' = [t \in Instances |->
            IF t \in Registered /\ producedIn[t] = turn THEN 0 ELSE producedIn[t]]
    /\ sinceReset' = TRUE
    /\ carried' = NoCitations
    /\ UNCHANGED tools

reset_sources ==
    /\ op' = [name |-> "reset_sources"]
    /\ ret' = Ok(None)
    /\ last_sources' = [t \in Instances |->
            IF t \in Registered THEN Cleared(last_sources[t]) ELSE last_sources[t]]
    /\ last_source_links' = [t \in Instances |->
            IF t \in Registered THEN Cleared(last_source_links[t])
            ELSE last_source_links[t]]
    /\ producedIn' = [t \in Instances |-> IF t \in Registered THEN 0 ELSE producedIn[t]]
    /\ sinceReset' = TRUE
    /\ carried' = NoCitations
    /\ UNCHANGED tools

ToolNames == {"search_course_content", "get_course_outline", "calculator"}

\* Neither component is in use: the state the other component's behaviours keep
StoreIdle ==
    /\ max_history = 2
    /\ sessions = <<>>
    /\ issued = {}
    /\ appended = [i \in SessionIds |-> <<>>]
    /\ nAdds = 0

\* The threads of test_concurrent_session_creation
Threads == 1..MaxThreads

\* A thread that has not entered create_session
NotStarted == [pc |-> "start"]

\* No tool call has been recorded
NoCall == [tool_name |-> "none"]

CallerIdle ==
    /\ turn = 0
    /\ phase = "idle"
    /\ nDispatch = 0
    /\ call = NoCall
    /\ threads = [th \in Threads |-> NotStarted]

(***************************************************************************)
(* ToolsSpec: the tools and the registry called in any order               *)
(***************************************************************************)
ToolsNext ==
    \/ /\ \E t \in Instances : register_tool(t)
       /\ UNCHANGED <<svars, cvars>>
    \/ /\ get_tool_definitions
       /\ UNCHANGED <<svars, cvars>>
    \/ /\ \E n \in ToolNames, p \in Params :
            IF Searches(n, p)
            THEN \E r \in SearchAnswers : execute_tool(n, p, r)
            ELSE execute_tool(n, p, NoAnswer)
       /\ UNCHANGED <<svars, cvars>>
    \/ /\ get_last_sources
       /\ UNCHANGED <<svars, cvars>>
    \/ /\ get_last_source_links
       /\ UNCHANGED <<svars, cvars>>
    \/ /\ reset_sources
       /\ UNCHANGED <<svars, cvars>>

ToolsSpecInit ==
    /\ StoreIdle
    /\ ToolsInit
    /\ CallerIdle
    /\ op = [name |-> "init"]
    /\ ret = Ok(None)

ToolsSpec == ToolsSpecInit /\ [][ToolsNext]_vars

(***************************************************************************)
(* The caller's request cycle: tools are registered between requests; a    *)
(* request dispatches up to MaxDispatches tool calls, reads the labels,    *)
(* reads the links, then resets the citations (TurnsSpec also lets the     *)
(* caller omit the reset).  One request runs at a time.                    *)
(***************************************************************************)
Register ==
    /\ phase = "idle"
    /\ \E t \in Instances : register_tool(t)
    /\ UNCHANGED <<svars, cvars>>

BeginRequest ==
    /\ phase = "idle"
    /\ turn < MaxTurns
    /\ turn' = turn + 1
    /\ phase' = "dispatch"
    /\ nDispatch' = 0
    /\ call' = call
    /\ threads' = threads
    /\ op' = [name |-> "begin_request"]
    /\ ret' = Ok(None)
    /\ UNCHANGED <<svars, tvars>>

Dispatch ==
    /\ phase = "dispatch"
    /\ nDispatch < MaxDispatches
    /\ nDispatch' = nDispatch + 1
    /\ \E n \in ToolNames, p \in Params :
            IF Searches(n, p)
            THEN \E r \in SearchAnswers : execute_tool(n, p, r)
            ELSE execute_tool(n, p, NoAnswer)
    /\ UNCHANGED <<svars, turn, phase, call, threads>>

ReadSources ==
    /\ phase = "dispatch"
    /\ get_last_sources
    /\ phase' = "links"
    /\ UNCHANGED <<svars, turn, nDispatch, call, threads>>

ReadLinks ==
    /\ phase = "links"
    /\ get_last_source_links
    /\ phase' = "reset"
    /\ UNCHANGED <<svars, turn, nDispatch, call, threads>>

Reset ==
    /\ phase = "reset"
    /\ reset_sources
    /\ phase' = "idle"
    /\ UNCHANGED <<svars, turn, nDispatch, call, threads>>

\* The request ends without reset_sources: its citations stay behind
OmitReset ==
    /\ phase = "reset"
    /\ phase' = "idle"
    /\ carried' = LastCitations
    /\ op' = [name |-> "omit_reset"]
    /\ ret' = Ok(None)
    /\ UNCHANGED <<svars, tools, last_sources, last_source_links, sinceReset,
                   producedIn, turn, nDispatch, call, threads>>

CriticalNext ==
    \/ Register
    \/ BeginRequest
    \/ Dispatch
    \/ ReadSources
    \/ ReadLinks
    \/ Reset

TurnsNext ==
    \/ Register
    \/ BeginRequest
    \/ Dispatch
    \/ ReadSources
    \/ ReadLinks
    \/ Reset
    \/ OmitReset

CriticalSpec == ToolsSpecInit /\ [][CriticalNext]_vars

TurnsSpec == ToolsSpecInit /\ [][TurnsNext]_vars

(***************************************************************************)
(* TracedSpec: the registry called in any order, every execute_tool call   *)
(* recorded in call together with the store's answer and the store methods *)
(* the call reached.                                                       *)
(***************************************************************************)
\* The record of tool.execute(**params) on tool object t, requested as tool_name
CallOf(tool_name, t, params, results) ==
    [tool_name |-> tool_name, params |-> params, results |-> results,
     store_calls |-> StoreCalls(t, params, results)]

\* execute_tool(tool_name, **params) answered by results, recorded in call
Traced(tool_name, params, results) ==
    /\ execute_tool(tool_name, params, results)
    /\ call' = IF tool_name \in Names(tools)
               THEN CallOf(tool_name, tools[Lookup(tools, tool_name)].tool, params, results)
               ELSE [tool_name |-> tool_name, params |-> params, results |-> results,
                     store_calls |-> <<>>]
    /\ UNCHANGED <<svars, turn, phase, nDispatch, threads>>

\* The store's answers to a dispatched search: nothing, one document, an error
DispatchAnswers ==
    [error : {None}, chunks : SeqsUpTo(Chunks, 1)]
    \cup { [error |-> "Search failed", chunks |-> <<>>] }

TracedNext ==
    \/ /\ \E t \in Instances : register_tool(t)
       /\ UNCHANGED <<svars, cvars>>
    \/ \E n \in ToolNames, p \in Params :
            IF Searches(n, p)
            THEN \E r \in DispatchAnswers : Traced(n, p, r)
            ELSE Traced(n, p, NoAnswer)
    \/ /\ get_last_sources
       /\ UNCHANGED <<svars, cvars>>

TracedSpec == ToolsSpecInit /\ [][TracedNext]_vars

(***************************************************************************)
(* FormatSpec: the two tool classes executed directly, one object each,    *)
(* over a wider range of arguments and store answers (lesson 0, lesson     *)
(* filters, an empty course filter); every call is recorded in call.       *)
(***************************************************************************)
\* The chunks of Chunks and one of lesson 0
LessonChunks ==
    Chunks \cup { [doc |-> "Doc A", meta |-> [course_title |-> "MCP", lesson_number |-> 0]] }

FormatAnswers ==
    [error : {None}, chunks : SeqsUpTo(LessonChunks, MaxResults)]
    \cup [error : {"Search failed"}, chunks : SeqsUpTo(Chunks, 1)]

\* Searches without a filter, filtered by a course, by lesson 0, by a course
\* and a lesson, and by an empty course name
FormatParams ==
    { [query |-> "q"],
      [query |-> "q", course_name |-> "MCP"],
      [query |-> "q", lesson_number |-> 0],
      [query |-> "q", course_name |-> "MCP", lesson_number |-> 2],
      [query |-> "q", course_name |-> ""] }

\* tool.execute(**params) on tool object t, recorded in call
Execution(t, params, results) ==
    /\ Executes(t, params, results)
    /\ call' = CallOf(get_tool_definition(t).name, t, params, results)
    /\ UNCHANGED <<svars, turn, phase, nDispatch, threads>>

FormatNext ==
    \/ \E p \in FormatParams, r \in FormatAnswers : Execution("search1", p, r)
    \/ \E p \in OutlineParams : Execution("outline1", p, NoAnswer)

FormatSpec == ToolsSpecInit /\ [][FormatNext]_vars

(***************************************************************************)
(* StoreSpec: the session store called in any order                        *)
(***************************************************************************)
StoreNext ==
    \/ /\ create_session
       /\ UNCHANGED <<tvars, cvars>>
    \/ /\ nAdds < MaxAdds
       /\ \E i \in SessionIds, m \in Inputs : add_message(i, m[1], m[2])
       /\ UNCHANGED <<tvars, cvars>>
    \/ /\ \E i \in SessionIds : get_session_history(i)
       /\ UNCHANGED <<tvars, cvars>>
    \/ /\ \E i \in SessionIds : session_exists(i)
       /\ UNCHANGED <<tvars, cvars>>
    \/ /\ \E i \in SessionIds : delete_session(i)
       /\ UNCHANGED <<tvars, cvars>>
    \/ /\ clear_all_sessions
       /\ UNCHANGED <<tvars, cvars>>
    \/ /\ get_session_count
       /\ UNCHANGED <<tvars, cvars>>
    \/ /\ \E i \in SessionIds : get_formatted_history(i)
       /\ UNCHANGED <<tvars, cvars>>


StoreSpecInit ==
    /\ StoreInit
    /\ ToolsInit
    /\ CallerIdle
    /\ op = [name |-> "init"]
    /\ ret = Ok(None)

StoreSpec == StoreSpecInit /\ [][StoreNext]_vars

(***************************************************************************)
(* PairsSpec: one fresh session to which a caller appends complete         *)
(* (user, assistant) pairs in order, as the history tests do.              *)
(***************************************************************************)
UserContents == {"First", "Second"}
AssistantContents == {"R1", "R2"}

PairsNext ==
    \/ /\ issued = {}
       /\ create_session
       /\ UNCHANGED <<tvars, cvars>>
    \/ /\ nAdds < 2 * MaxPairs
       /\ \E i \in DOMAIN sessions :
            \/ /\ Len(appended[i]) % 2 = 0
               /\ \E c \in UserContents : add_message(i, "user", c)
            \/ /\ Len(appended[i]) % 2 = 1
               /\ \E c \in AssistantContents : add_message(i, "assistant", c)
       /\ UNCHANGED <<tvars, cvars>>

PairsSpec == StoreSpecInit /\ [][PairsNext]_vars

(***************************************************************************)
(* ConcurrentSpec: MaxThreads threads call create_session on one store at  *)
(* once.  A thread first draws its uuid4 into the local session_id, then   *)
(* stores the empty history under it and returns; the threads interleave   *)
(* between the two statements.  The store into the dict is one step: a     *)
(* dict item assignment is atomic in CPython.                              *)
(***************************************************************************)
\* The uuid4 values the threads can draw
Tokens == {"u" \o ToString(k) : k \in 1..MaxThreads}

\* NewTokens as the ids absent from the dict: a value drawn by a thread that
\* has not stored it yet can be drawn again
NewTokensUnstored == Tokens \ DOMAIN sessions

\* uuid4 returns a value no earlier call has returned
NewTokens == Tokens \ issued

\* session_id = str(uuid.uuid4())
DrawId(th) ==
    /\ threads[th].pc = "start"
    /\ \E session_id \in NewTokens :
          /\ threads' = [threads EXCEPT ![th] =
                             [pc |-> "drawn", session_id |-> session_id]]
          /\ issued' = issued \cup {session_id}
          /\ op' = [name |-> "uuid4", thread |-> th]
          /\ ret' = Ok(session_id)
    /\ UNCHANGED <<max_history, sessions, appended, nAdds, tvars, turn, phase,
                   nDispatch, call>>

\* self.sessions[session_id] = []; return session_id
StoreSession(th) ==
    /\ threads[th].pc = "drawn"
    /\ sessions' = [i \in DOMAIN sessions \cup {threads[th].session_id} |->
                        IF i = threads[th].session_id THEN <<>> ELSE sessions[i]]
    /\ threads' = [threads EXCEPT ![th].pc = "returned"]
    /\ op' = [name |-> "create_session", thread |-> th]
    /\ ret' = Ok(threads[th].session_id)
    /\ UNCHANGED <<max_history, issued, appended, nAdds, tvars, turn, phase,
                   nDispatch, call>>

ConcurrentNext ==
    \/ \E th \in Threads : DrawId(th)
    \/ \E th \in Threads : StoreSession(th)

ConcurrentSpec == StoreSpecInit /\ [][ConcurrentNext]_vars

(***************************************************************************)
(* Claims about the session store                                          *)
(***************************************************************************)
\* The last n entries of list (all of it when it is shorter)
LastN(list, n) ==
    IF n >= Len(list) THEN list ELSE SubSeq(list, Len(list) - n + 1, Len(list))

Min(a, b) == IF a <= b THEN a ELSE b

\* C1: for every max_history >= 0, the history of every existing session has
\* at most 2 * max_history entries after each call (create_session,
\* add_message, delete_session, clear_all_sessions, any role).
C1_HistoryBounded ==
    \A i \in DOMAIN sessions : Len(sessions[i]) <= 2 * max_history

\* C1 witness: an add_message on a session already holding 2 * max_history
\* entries (max_history = 2) has just been trimmed.
C1_Witness ==
    /\ max_history = 2
    /\ op.name = "add_message" /\ ret.kind = "ok"
    /\ Len(appended[op.id]) = 5
    /\ Len(sessions[op.id]) = 3

\* C2 as stated: the history length of every session is even in every state,
\* after each single add_message.
C2_AlwaysEven ==
    \A i \in DOMAIN sessions : Len(sessions[i]) % 2 = 0

\* C2 amended: the history length is even after every even number of
\* add_message calls on the session and, for max_history >= 1, odd after every
\* odd number of calls; for max_history = 0 it is always 0.
C2_ParityFollowsCalls ==
    \A i \in DOMAIN sessions :
        IF max_history = 0
        THEN Len(sessions[i]) = 0
        ELSE Len(sessions[i]) % 2 = Len(appended[i]) % 2

\* C2 witness: three calls with max_history = 1 leave one entry.
C2_Witness ==
    /\ max_history = 1
    /\ \E i \in DOMAIN sessions : Len(appended[i]) = 3 /\ Len(sessions[i]) = 1

\* The step is a successful add_message on session i
AddedTo(i) ==
    /\ op'.name = "add_message" /\ ret'.kind = "ok" /\ op'.id = i
    /\ i \in DOMAIN sessions /\ i \in DOMAIN sessions'

\* The message the step appended to session i
JustAppended(i) == appended'[i][Len(appended'[i])]

\* Entries the step removed from session i
Removed(i) == Len(sessions[i]) + 1 - Len(sessions'[i])

\* C3 as stated: whenever add_message makes the history longer than
\* 2 * max_history, that call removes exactly 2 entries, for every
\* max_history >= 0.
C3_AlwaysTwoRemoved ==
    [][\A i \in SessionIds :
          (AddedTo(i) /\ Len(sessions[i]) + 1 > 2 * max_history)
              => Removed(i) = 2]_vars

\* C3 amended: an add_message that makes the history longer than
\* 2 * max_history removes exactly the 2 oldest entries when max_history >= 1
\* and exactly 1 entry, the one just appended, when max_history = 0; an
\* add_message that does not exceed the limit removes nothing; the entries
\* that stay keep their order.
C3_TrimRemovesOldest ==
    [][\A i \in SessionIds :
          AddedTo(i) =>
              LET full == Append(sessions[i], JustAppended(i))
                  removed == IF Len(full) <= 2 * max_history THEN 0
                             ELSE IF max_history = 0 THEN 1 ELSE 2
              IN  /\ Removed(i) = removed
                  /\ \A k \in 1..Len(sessions'[i]) :
                         sessions'[i][k] = full[k + removed]]_vars

\* C3 witness: an add_message has just removed the two oldest entries.
C3_Witness ==
    /\ max_history >= 1
    /\ op.name = "add_message" /\ ret.kind = "ok"
    /\ Len(appended[op.id]) = 2 * max_history + 1
    /\ Len(sessions[op.id]) = 2 * max_history - 1

\* C4: after k complete (user, assistant) pairs appended to a fresh session,
\* the history is exactly the last min(k, max_history) pairs, in order.
C4_LastPairsKept ==
    \A i \in DOMAIN sessions :
        Len(appended[i]) % 2 = 0 =>
            sessions[i] =
                LastN(appended[i], 2 * Min(Len(appended[i]) \div 2, max_history))

\* C4 witness: max_history = 1 and two pairs appended; the history is the
\* second pair.
C4_Witness ==
    /\ max_history = 1
    /\ \E i \in DOMAIN sessions :
          /\ Len(appended[i]) = 4
          /\ sessions[i] = <<appended[i][3], appended[i][4]>>

\* C5: with max_history = 0, after every add_message on an existing session
\* the session still exists and its history is empty.
C5_ZeroKeepsNothing ==
    max_history = 0 =>
        /\ \A i \in DOMAIN sessions : sessions[i] = <<>>
        /\ (op.name = "add_message" /\ ret.kind = "ok") => op.id \in DOMAIN sessions

\* C5 witness: max_history = 0 and a second add_message on one session has
\* succeeded.
C5_Witness ==
    /\ max_history = 0
    /\ op.name = "add_message" /\ ret.kind = "ok"
    /\ op.id \in DOMAIN sessions
    /\ Len(appended[op.id]) = 2

(***************************************************************************)
(* Claims about the tools and the registry                                 *)
(***************************************************************************)
\* Tool object t holds citations
Holds(t) == last_sources[t].val # <<>> \/ last_source_links[t].val # <<>>

\* C6: after every execute call that returns (formatted results, store error,
\* empty result, course not found) the tool's labels and links are as many as
\* the result blocks that call formatted.
C6_CitationsDescribeLastCall ==
    (op.name = "execute_tool" /\ op.tool # "none" /\ op.outcome # "raised") =>
        /\ Len(last_sources[op.tool].val) = op.blocks
        /\ Len(last_source_links[op.tool].val) = op.blocks

\* Positions in the registry whose tool holds a non-empty list in attr
Holders(attr) ==
    {k \in 1..Len(tools) : attr[tools[k].tool].set /\ attr[tools[k].tool].val # <<>>}

\* The list of the earliest-registered holder, [] when there is none
EarliestHolder(attr) ==
    IF Holders(attr) = {} THEN <<>>
    ELSE attr[tools[CHOOSE k \in Holders(attr) :
                        \A j \in Holders(attr) : k <= j].tool].val

\* C7: get_last_sources and get_last_source_links return [] when no registered
\* tool holds citations and otherwise exactly the list of the
\* earliest-registered tool that holds a non-empty one, in whatever order the
\* tools were executed.
C7_FirstRegisteredWins ==
    /\ op.name = "get_last_sources" => ret.val = EarliestHolder(last_sources)
    /\ op.name = "get_last_source_links" => ret.val = EarliestHolder(last_source_links)

\* C7 witness: two registered tools hold different citations and the read
\* returned those of the first-registered one.
C7_Witness ==
    /\ op.name = "get_last_sources"
    /\ Len(tools) = 2
    /\ last_sources[tools[1].tool].val # <<>>
    /\ last_sources[tools[2].tool].val # <<>>
    /\ last_sources[tools[1].tool].val # last_sources[tools[2].tool].val
    /\ ret.val = last_sources[tools[1].tool].val

\* C8 as stated: after reset_sources no registered tool holds citations and the
\* registry returns no labels and no links until the next execute that formats
\* results; reset_sources leaves the registry's entries and their order alone.
C8_EmptyUntilNextFormat ==
    /\ [](sinceReset => /\ \A t \in Registered : ~Holds(t)
                        /\ LastCitations = NoCitations)
    /\ [][op'.name = "reset_sources" => tools' = tools]_vars

\* C8 amended: reset_sources empties the citations of every registered tool
\* and leaves the registry's entries and their order alone; from then on the
\* registry returns no labels and no links until the next execute that formats
\* results or the next register_tool of a tool object that already holds
\* citations.
C8_ResetClearsRegistered ==
    [][/\ op'.name = "reset_sources" =>
            /\ tools' = tools
            /\ \A k \in 1..Len(tools') :
                   /\ last_sources'[tools'[k].tool].val = <<>>
                   /\ last_source_links'[tools'[k].tool].val = <<>>
            /\ LastCitations' = NoCitations
       /\ (LastCitations = NoCitations /\ LastCitations' # NoCitations) =>
            \/ op'.name = "execute_tool" /\ op'.outcome = "formatted"
            \/ /\ op'.name = "register_tool" /\ ret'.kind = "ok"
               /\ Holds(op'.tool)]_vars

\* C8 witness: reset_sources has just run over two registered tools that had
\* both formatted results before.
C8_Witness ==
    /\ op.name = "reset_sources"
    /\ Len(tools) = 2
    /\ \A t \in Registered : last_source_links[t].set /\ ~Holds(t)

C10_OwnCitationsOnly ==
    /\ \A t \in Registered : Holds(t) => (producedIn[t] = turn /\ phase # "idle")
    /\ (op.name = "get_last_sources" /\ ret.val # <<>>) =>
           \E t \in Registered : ret.val = last_sources[t].val /\ producedIn[t] = turn
    /\ (op.name = "get_last_source_links" /\ ret.val # <<>>) =>
           \E t \in Registered : ret.val = last_source_links[t].val /\ producedIn[t] = turn

\* C10 witness: the second request reads citations of its own dispatch.
C10_Witness ==
    /\ turn = 2
    /\ op.name = "get_last_sources"
    /\ ret.val # <<>>

\* The names of the registry's entries, in order
NameSeq(d) == [k \in 1..Len(d) |-> d[k].name]

\* The step is a successful register_tool
Registers == op'.name = "register_tool" /\ ret'.kind = "ok"

\* C11: after any sequence of successful register_tool calls,
\* get_tool_definitions returns one definition per distinct registered name,
\* in the order the names were first registered (a name registered again
\* keeps its place), and the entry of a name is the tool registered last
\* under it; no other call changes the registry.
C11_DefinitionsFollowRegistration ==
    /\ [](/\ Len(tools) = Cardinality(Names(tools))
          /\ op.name = "get_tool_definitions" =>
                /\ Len(ret.val) = Cardinality(Names(tools))
                /\ \A k \in 1..Len(ret.val) :
                       /\ ret.val[k] = get_tool_definition(tools[k].tool)
                       /\ ret.val[k].name = tools[k].name)
    /\ [][IF Registers
          THEN LET n == get_tool_definition(op'.tool).name
               IN  /\ NameSeq(tools') = IF n \in Names(tools) THEN NameSeq(tools)
                                                              ELSE Append(NameSeq(tools), n)
                   /\ \A k \in 1..Len(tools') :
                          tools'[k].tool = IF tools'[k].name = n THEN op'.tool
                                           ELSE tools[k].tool
          ELSE tools' = tools]_vars

\* C11 witness: get_tool_definitions on a registry of two names whose first
\* entry, the outline name, was registered for outline1 (which formatted an
\* outline) and again for outline2.
C11_Witness ==
    /\ op.name = "get_tool_definitions"
    /\ Len(ret.val) = 2
    /\ ret.val[1].name = "get_course_outline"
    /\ tools[1].tool = "outline2"
    /\ Holds("outline1")

\* The definition of tool object t has no name or an empty one
Nameless(t) == ~Truthy(Get(get_tool_definition(t), "name", None))

\* C12: register_tool of a tool whose definition has a missing or an empty
\* name raises ValueError and leaves the registry as it was: no entry added,
\* replaced or moved, and no tool's citations changed.
C12_NamelessRegisterRejected ==
    [][(op'.name = "register_tool" /\ Nameless(op'.tool)) =>
          /\ ret' = Raise("ValueError")
          /\ tools' = tools
          /\ last_sources' = last_sources
          /\ last_source_links' = last_source_links]_vars

\* C12 witness: a tool with an empty name was rejected by a registry of two
\* tools, one of them holding citations.
C12_Witness ==
    /\ op.name = "register_tool" /\ op.tool = "blank1"
    /\ ret = Raise("ValueError")
    /\ Len(tools) = 2
    /\ \E t \in Registered : Holds(t)

(***************************************************************************)
(* Claims about dispatch (TracedSpec)                                      *)
(***************************************************************************)
\* The step is an execute_tool call; call' holds its arguments
Dispatches == op'.name = "execute_tool"

\* The tool object that dict d holds under name n
ToolIn(d, n) == d[Lookup(d, n)].tool

\* The tool object registered under name n
ToolNamed(n) == ToolIn(tools, n)

\* C13: execute_tool for a name that is not registered returns exactly
\* "Tool '{name}' not found", raises nothing, executes no tool, calls no store
\* method and leaves the registry and every tool's citations unchanged.
C13_UnknownNameReported ==
    [][(Dispatches /\ call'.tool_name \notin Names(tools)) =>
          /\ ret' = Ok("Tool '" \o call'.tool_name \o "' not found")
          /\ op'.tool = "none"
          /\ call'.store_calls = <<>>
          /\ tools' = tools
          /\ last_sources' = last_sources
          /\ last_source_links' = last_source_links]_vars

\* C13 witness: a registry of two tools, one holding citations, was asked
\* for a name it does not have.
C13_Witness ==
    /\ op.name = "execute_tool"
    /\ call.tool_name = "calculator"
    /\ ret = Ok("Tool 'calculator' not found")
    /\ Len(tools) = 2
    /\ \E t \in Registered : Holds(t)

\* What tool.execute(**params) on tool object t returns or raises
Returned(t, params, results) ==
    LET out == Execute(t, params, results)
    IN  IF out.kind = "raised" THEN Raise(out.text) ELSE Ok(out.text)

\* C14: a successful register_tool makes its tool the one registered under its
\* name and no other call changes which tool a name stands for; execute_tool
\* for a registered name returns what execute(params) of the tool registered
\* last under that name returns and executes no other tool (so a replaced tool
\* is never executed again), and get_last_sources returns the list of a
\* registered tool, never that of a replaced one.
C14_LatestRegisteredExecutes ==
    /\ [][IF Registers
          THEN ToolIn(tools', get_tool_definition(op'.tool).name) = op'.tool
          ELSE \A n \in Names(tools) :
                   n \in Names(tools') /\ ToolIn(tools', n) = ToolNamed(n)]_vars
    /\ [][(Dispatches /\ call'.tool_name \in Names(tools)) =>
             /\ op'.tool = ToolNamed(call'.tool_name)
             /\ ret' = Returned(op'.tool, call'.params, call'.results)
             /\ \A t \in Instances \ {op'.tool} :
                    /\ last_sources'[t] = last_sources[t]
                    /\ last_source_links'[t] = last_source_links[t]]_vars
    /\ [](op.name = "get_last_sources" =>
             \/ ret.val = <<>>
             \/ \E t \in Registered : last_sources[t].val = ret.val)

\* C14 witness: outline1 formatted an outline and was replaced by outline2
\* under the same name; a dispatch of that name has just executed outline2,
\* which formatted another course.
C14_Witness ==
    /\ op.name = "execute_tool" /\ op.tool = "outline2" /\ op.outcome = "formatted"
    /\ "outline1" \notin Registered
    /\ Holds("outline1")
    /\ last_sources["outline1"] # last_sources["outline2"]

\* C16: execute_tool for a registered tool with params that lack one of its
\* required parameters (search without query, outline without course_title)
\* ends in a raised error, without a call to the store and without a change
\* to any tool's citations.
C16_MissingRequiredRejected ==
    [][(/\ Dispatches
        /\ call'.tool_name \in Names(tools)
        /\ ~(get_tool_definition(ToolNamed(call'.tool_name)).required
                 \subseteq DOMAIN call'.params)) =>
          /\ ret'.kind = "raise"
          /\ call'.store_calls = <<>>
          /\ last_sources' = last_sources
          /\ last_source_links' = last_source_links]_vars

\* C16 witness: a search tool holding citations was dispatched without query.
C16_Witness ==
    /\ op.name = "execute_tool" /\ op.tool = "search1"
    /\ call.params = [course_name |-> "MCP"]
    /\ ret = Raise("TypeError")
    /\ Holds("search1")

(***************************************************************************)
(* Claims about the two execute methods (FormatSpec)                       *)
(***************************************************************************)
\* The last call was search1.execute and its body ran
Searched ==
    /\ op.name = "execute_tool" /\ op.tool = "search1"
    /\ "query" \in DOMAIN call.params

\* C15: whenever the store's search answer carries an error, with or without
\* documents, search execute raises nothing, returns exactly that error
\* string, and calls no store method but search (no link lookup).
C15_StoreErrorReturned ==
    (Searched /\ call.results.error # None) =>
        /\ ret = Ok(call.results.error)
        /\ call.store_calls = << [method |-> "search"] >>

\* C15 witness: the store answered with an error and a document.
C15_Witness ==
    /\ Searched
    /\ call.results.error = "Search failed"
    /\ Len(call.results.chunks) = 1
    /\ ret = Ok("Search failed")

\* C17: when the store answers without error and without documents, search
\* execute returns "No relevant content found", then " in course '{name}'" if
\* course_name was supplied, then " in lesson {n}" if lesson_number was
\* supplied (0 included), then "."; with no filter exactly
\* "No relevant content found.".
C17_EveryFilterNamed ==
    (Searched /\ call.results.error = None /\ call.results.chunks = <<>>) =>
        ret = Ok("No relevant content found"
                 \o (IF "course_name" \in DOMAIN call.params
                     THEN " in course '" \o call.params.course_name \o "'" ELSE "")
                 \o (IF "lesson_number" \in DOMAIN call.params
                     THEN " in lesson " \o ToString(call.params.lesson_number) ELSE "")
                 \o ".")

\* The header the claim expects for a block of metadata meta
LessonSegment(meta) ==
    IF "lesson_number" \in DOMAIN meta
    THEN " - Lesson " \o ToString(meta.lesson_number) ELSE ""

\* C18: in formatted search results the header of a block is
\* "[{course_title} - Lesson {n}]" when the block's lesson number is present,
\* 0 included, and "[{course_title}]" when it is not; the blocks are header,
\* newline, document, joined by a blank line.
C18_LessonSegmentIffPresent ==
    (Searched /\ op.outcome = "formatted") =>
        ret.val = Join([k \in 1..Len(call.results.chunks) |->
                          "[" \o call.results.chunks[k].meta.course_title
                              \o LessonSegment(call.results.chunks[k].meta) \o "]"
                              \o "\n" \o call.results.chunks[k].doc], "\n\n")

\* C18 witness: a block of lesson 0 and a block without a lesson.
C18_Witness ==
    /\ Searched
    /\ ret = Ok("[MCP - Lesson 0]\nDoc A\n\n[Intro]\nDoc C")

HasLesson(chunk) == "lesson_number" \in DOMAIN chunk.meta

IsLessonLookup(c) == c.method = "get_lesson_link"

\* The link the claim expects for a block of metadata meta
ResolvedLink(meta) ==
    IF "lesson_number" \in DOMAIN meta
       /\ get_lesson_link(meta.course_title, meta.lesson_number) \notin {None, ""}
    THEN get_lesson_link(meta.course_title, meta.lesson_number)
    ELSE get_course_link(meta.course_title)

\* C19: the link of each formatted block is get_lesson_link(course_title,
\* lesson_number) when the lesson number is present (0 included) and that
\* value is not empty, and get_course_link(course_title) otherwise;
\* get_lesson_link is called once for each block with a lesson number, in
\* order, and never for a block without one.
C19_LessonLinkThenCourseLink ==
    (Searched /\ op.outcome = "formatted") =>
        LET chunks == call.results.chunks
            lessons == SelectSeq(chunks, HasLesson)
        IN  /\ last_source_links["search1"].val =
                   [k \in 1..Len(chunks) |-> ResolvedLink(chunks[k].meta)]
            /\ SelectSeq(call.store_calls, IsLessonLookup) =
                   [k \in 1..Len(lessons) |->
                       [method |-> "get_lesson_link",
                        course_title |-> lessons[k].meta.course_title,
                        lesson_number |-> lessons[k].meta.lesson_number]]

\* C19 witness: lesson 0 has a lesson link, lesson 1 an empty one and falls
\* back to the course link.
C19_Witness ==
    /\ Searched
    /\ Len(call.results.chunks) = 2
    /\ call.results.chunks[1].meta = [course_title |-> "MCP", lesson_number |-> 0]
    /\ call.results.chunks[2].meta = [course_title |-> "MCP", lesson_number |-> 1]
    /\ last_source_links["search1"].val = <<"https://mcp/0", "https://mcp">>

\* C20: outline execute for a title the store cannot resolve raises nothing
\* and returns "Course '{title}' not found. Available courses: " followed by
\* all titles of get_all_course_titles in store order joined by ", ".
C20_NotFoundListsTitles ==
    (/\ op.name = "execute_tool" /\ op.tool = "outline1"
     /\ get_course_by_title(call.params.course_title) = NoCourse) =>
        /\ ret = Ok("Course '" \o call.params.course_title
                    \o "' not found. Available courses: "
                    \o Join(get_all_course_titles, ", "))
        /\ call.store_calls = << [method |-> "get_course_by_title"],
                                 [method |-> "get_all_course_titles"] >>

\* C20 witness: the outline of "Nope" was asked for.
C20_Witness ==
    /\ op.name = "execute_tool" /\ op.tool = "outline1"
    /\ ret = Ok("Course 'Nope' not found. Available courses: MCP, Intro")

\* The last call was outline1.execute for a course the store resolved
Outlined ==
    /\ op.name = "execute_tool" /\ op.tool = "outline1"
    /\ "course_title" \in DOMAIN call.params
    /\ get_course_by_title(call.params.course_title) # NoCourse

\* The course the last outline call was about
OutlinedCourse == get_course_by_title(call.params.course_title)

\* C21: after an outline execute that finds the course, the tool's labels are
\* exactly [title] and its links exactly [link] (the course link, or
\* "No link available" for a course without one), whatever the tool held
\* before: both lists have length 1.
C21_OutlineCitationSingleton ==
    Outlined =>
        /\ last_sources["outline1"] = Attr(<<OutlinedCourse.title>>)
        /\ last_source_links["outline1"] =
               Attr(<<IF "link" \in DOMAIN OutlinedCourse THEN OutlinedCourse.link
                      ELSE "No link available">>)
        /\ Len(last_sources["outline1"].val) = 1
        /\ Len(last_source_links["outline1"].val) = 1

\* C21 witness: the outline of a course without a link was formatted.
C21_Witness ==
    /\ Outlined
    /\ call.params.course_title = "Intro"
    /\ last_sources["outline1"].val = <<"Intro">>
    /\ last_source_links["outline1"].val = <<"No link available">>

\* x has a link that is neither empty nor the default text
RealLink(x) == "link" \in DOMAIN x /\ x.link \notin {"", "No link available"}

\* The line of one lesson and its link sub-line, each ended by a newline
LessonText(lesson) ==
    "  " \o ToString(lesson.number) \o ". " \o lesson.title \o "\n"
    \o (IF RealLink(lesson) THEN "     Link: " \o lesson.link \o "\n" ELSE "")

RECURSIVE LessonsText(_)
LessonsText(lessons) ==
    IF lessons = <<>> THEN ""
    ELSE LessonText(Head(lessons)) \o LessonsText(Tail(lessons))

\* Title line, instructor line, link line and blank line
HeadText(course) ==
    "**Course:** " \o course.title \o "\n"
    \o "**Instructor:** "
    \o (IF "instructor" \in DOMAIN course THEN course.instructor
                                            ELSE "Unknown instructor") \o "\n"
    \o "**Course Link:** "
    \o (IF "link" \in DOMAIN course THEN course.link ELSE "No link available") \o "\n"
    \o "\n"

\* C22 as stated: the outline of a found course is the title line, the
\* instructor line, the link line, a blank line, and then either the
\* no-lessons line or the lesson lines (with their link sub-lines) directly
\* followed by the total-lessons line, and nothing else.
C22_OutlineLinesAsListed ==
    Outlined =>
        ret.val = HeadText(OutlinedCourse)
                  \o (IF OutlinedCourse.lessons = <<>> THEN "**No lessons available**"
                      ELSE LessonsText(OutlinedCourse.lessons)
                           \o "**Total Lessons:** "
                           \o ToString(Len(OutlinedCourse.lessons)))

\* C22 amended: as stated, with a lessons heading line before the first lesson
\* line and a blank line before the total-lessons line.
C22_OutlineLinesWithHeading ==
    Outlined =>
        ret.val = HeadText(OutlinedCourse)
                  \o (IF OutlinedCourse.lessons = <<>> THEN "**No lessons available**"
                      ELSE "**Lessons:**\n"
                           \o LessonsText(OutlinedCourse.lessons)
                           \o "\n"
                           \o "**Total Lessons:** "
                           \o ToString(Len(OutlinedCourse.lessons)))

\* C22 witness: the outline of a course with a lesson that has a link and one
\* that has none.
C22_Witness ==
    /\ Outlined
    /\ call.params.course_title = "MCP"
    /\ Len(OutlinedCourse.lessons) = 2
    /\ RealLink(OutlinedCourse.lessons[1])
    /\ ~RealLink(OutlinedCourse.lessons[2])

(***************************************************************************)
(* Claims about the session store's lifecycle (StoreSpec)                  *)
(***************************************************************************)
\* get_session_count of a dict
Count(d) == Cardinality(DOMAIN d)

\* Ids that were returned by create_session and exist no more
Gone == issued \ DOMAIN sessions

\* C23: every create_session returns an id that no earlier create_session
\* has returned, ids of deleted and cleared sessions included; right after the
\* call the session exists and its history is empty.
C23_FreshIdEmptyHistory ==
    [][op'.name = "create_session" =>
          /\ ret'.kind = "ok"
          /\ ret'.val \notin issued
          /\ ret'.val \in DOMAIN sessions'
          /\ sessions'[ret'.val] = <<>>]_vars

\* C23 witness: a second session was created after the first one was deleted
\* or cleared.
C23_Witness ==
    /\ op.name = "create_session"
    /\ Cardinality(issued) = 2
    /\ Count(sessions) = 1
    /\ sessions[ret.val] = <<>>

\* C25: add_message on an id that does not exist (never created, deleted or
\* cleared) raises ValueError and leaves the store as it was: no session is
\* created for the id, the count and every history are unchanged.
C25_UnknownIdRejected ==
    [][(op'.name = "add_message" /\ op'.id \notin DOMAIN sessions) =>
          /\ ret' = Raise("ValueError")
          /\ sessions' = sessions
          /\ Count(sessions') = Count(sessions)]_vars

\* C25 witness: add_message on the id of a deleted session was rejected while
\* another session holds messages.
C25_Witness ==
    /\ op.name = "add_message" /\ ret = Raise("ValueError")
    /\ op.id \in Gone
    /\ \E i \in DOMAIN sessions : sessions[i] # <<>>

\* C26: for an id that does not exist, get_session_history and
\* get_formatted_history raise ValueError and delete_session returns False
\* without raising; none of the three changes the store.
C26_ReadsRaiseDeleteReturnsFalse ==
    [][/\ (/\ op'.name \in {"get_session_history", "get_formatted_history"}
           /\ op'.id \notin DOMAIN sessions) =>
              (ret' = Raise("ValueError") /\ sessions' = sessions)
       /\ (op'.name = "delete_session" /\ op'.id \notin DOMAIN sessions) =>
              (ret' = Ok(FALSE) /\ sessions' = sessions)]_vars

\* C26 witness: get_formatted_history on the id of a deleted session raised
\* while another session holds messages.
C26_Witness ==
    /\ op.name = "get_formatted_history" /\ ret = Raise("ValueError")
    /\ op.id \in Gone
    /\ \E i \in DOMAIN sessions : sessions[i] # <<>>

\* C27: delete_session on an existing session returns True and the session
\* exists no more; an id that was deleted (or cleared) never exists again,
\* whatever is called later; session_exists returns False for it and a second
\* delete_session returns False.
C27_DeletedStaysGone ==
    [][/\ (op'.name = "delete_session" /\ op'.id \in DOMAIN sessions) =>
              (ret' = Ok(TRUE) /\ op'.id \notin DOMAIN sessions')
       /\ \A i \in Gone : i \notin DOMAIN sessions'
       /\ (op'.name = "session_exists" /\ op'.id \in Gone) => ret' = Ok(FALSE)
       /\ (op'.name = "delete_session" /\ op'.id \in Gone) => ret' = Ok(FALSE)]_vars

\* C27 witness: a second delete_session of a deleted id returned False after
\* another session was created and written to.
C27_Witness ==
    /\ op.name = "delete_session" /\ ret = Ok(FALSE)
    /\ op.id \in Gone
    /\ \E i \in DOMAIN sessions : sessions[i] # <<>>

\* "{role}: {content}" of entry k of history
Line(history, k) == history[k].role \o ": " \o history[k].content

\* The first n entries of history, rendered and separated by newlines
RECURSIVE Rendered(_, _)
Rendered(history, n) ==
    IF n = 0 THEN ""
    ELSE IF n = 1 THEN Line(history, 1)
    ELSE Rendered(history, n - 1) \o "\n" \o Line(history, n)

\* C28: get_formatted_history returns the entries of the history, each as
\* "{role}: {content}", in stored order, separated by single newlines with
\* none before the first or after the last; it returns "" exactly when the
\* history is empty, and it leaves the history as it was.
C28_FormattedHistoryRendersEntries ==
    /\ [](op.name = "get_formatted_history" /\ ret.kind = "ok" =>
             /\ ret.val = Rendered(sessions[op.id], Len(sessions[op.id]))
             /\ (ret.val = "") <=> (sessions[op.id] = <<>>))
    /\ [][op'.name = "get_formatted_history" => sessions' = sessions]_vars

\* C28 witness: a history of a user and an assistant message was formatted.
C28_Witness ==
    /\ op.name = "get_formatted_history"
    /\ ret = Ok("user: Hi\nassistant: Hello")

\* C29: add_message on an existing session accepts every role, "system"
\* included, and every content, the empty one included, and for
\* max_history >= 1 the last entry of the history after the call is the
\* {role, content} just appended.
C29_AnyRoleAppendedLast ==
    (op.name = "add_message" /\ op.id \in DOMAIN sessions) =>
        /\ ret = Ok(None)
        /\ max_history >= 1 =>
              /\ sessions[op.id] # <<>>
              /\ sessions[op.id][Len(sessions[op.id])]
                     = appended[op.id][Len(appended[op.id])]

\* C29 witness: a "system" message with empty content was appended to a full
\* history and is its last entry.
C29_Witness ==
    /\ op.name = "add_message" /\ ret = Ok(None)
    /\ max_history = 1
    /\ Len(appended[op.id]) = 3
    /\ sessions[op.id] = << Message("system", "") >>

\* C30: get_session_count returns the number of existing sessions;
\* create_session raises it by 1, a delete_session that returns True lowers it
\* by 1, clear_all_sessions makes it 0 and every session non-existent, and a
\* delete_session that returns False and every other call leave it unchanged.
C30_CountFollowsLifecycle ==
    /\ [](op.name = "get_session_count" =>
             ret.val = Cardinality({i \in SessionIds : i \in DOMAIN sessions}))
    /\ [][Count(sessions') =
             IF op'.name = "create_session" THEN Count(sessions) + 1
             ELSE IF op'.name = "delete_session" /\ ret' = Ok(TRUE)
             THEN Count(sessions) - 1
             ELSE IF op'.name = "clear_all_sessions" THEN 0
             ELSE Count(sessions)]_vars

\* C30 witness: delete_session has just removed one of two sessions.
C30_Witness ==
    /\ op.name = "delete_session" /\ ret = Ok(TRUE)
    /\ Cardinality(issued) = 2
    /\ Count(sessions) = 1

(***************************************************************************)
(* Claims about concurrent session creation (ConcurrentSpec)               *)
(***************************************************************************)
\* Threads whose create_session has returned
Finished == {th \in Threads : threads[th].pc = "returned"}

\* C24: when MaxThreads threads run create_session at once, under every
\* interleaving no call raises, the ids of different threads differ, every
\* returned id exists with an empty history, and the count has grown by one
\* for each call that returned (by MaxThreads when all have): no insertion
\* is lost.
C24_ConcurrentCreatesAllStored ==
    /\ ret.kind = "ok"
    /\ \A a, b \in Threads :
          (a # b /\ threads[a].pc # "start" /\ threads[b].pc # "start") =>
              threads[a].session_id # threads[b].session_id
    /\ \A th \in Finished :
          /\ threads[th].session_id \in DOMAIN sessions
          /\ sessions[threads[th].session_id] = <<>>
    /\ Count(sessions) = Cardinality(Finished)

\* C24 witness: every thread has returned, the last of them after all ids
\* were drawn.
C24_Witness ==
    /\ Finished = Threads
    /\ Count(sessions) = MaxThreads
    /\ op.name = "create_session"

(***************************************************************************)
(* Claims about frames, parallel citations and interleavings               *)
(***************************************************************************)
\* The definitions of the tools dict d holds, in dict order
Defs(d) == [k \in 1..Len(d) |-> get_tool_definition(d[k].tool)]

\* C31: get_tool_definitions changes neither the registry nor any tool's
\* citations and returns the definitions of the registered tools in registry
\* order; that sequence changes only with a successful register_tool, so that
\* between two registrations every call returns the same sequence, whatever
\* execute_tool, get_last_sources, get_last_source_links and reset_sources
\* calls happen in between.
C31_DefinitionsPureAndStable ==
    /\ [](op.name = "get_tool_definitions" => ret = Ok(Defs(tools)))
    /\ [][/\ op'.name = "get_tool_definitions" =>
                /\ tools' = tools
                /\ last_sources' = last_sources
                /\ last_source_links' = last_source_links
          /\ ~Registers => Defs(tools') = Defs(tools)]_vars

\* C31 witness: get_tool_definitions on a registry of two tools that both
\* hold citations; the citations are still there.
C31_Witness ==
    /\ op.name = "get_tool_definitions"
    /\ Len(tools) = 2
    /\ \A t \in Registered : Holds(t)

\* C32: a search execute that formats results keeps the order of the store's
\* answer and keeps blocks, labels and links parallel: there are as many
\* blocks, labels and links as (document, metadata) pairs; block k is
\* "[" label k "]", newline, document k; label k is made of the metadata of
\* pair k and link k is the link resolved for pair k.
C32_BlocksAndCitationsParallel ==
    (Searched /\ op.outcome = "formatted") =>
        LET chunks == call.results.chunks
            labels == last_sources["search1"].val
            links == last_source_links["search1"].val
        IN  /\ op.blocks = Len(chunks)
            /\ Len(labels) = Len(chunks)
            /\ Len(links) = Len(chunks)
            /\ ret.val = Join([k \in 1..Len(chunks) |->
                                  "[" \o labels[k] \o "]" \o "\n" \o chunks[k].doc],
                              "\n\n")
            /\ \A k \in 1..Len(chunks) :
                  /\ labels[k] = chunks[k].meta.course_title
                                     \o LessonSegment(chunks[k].meta)
                  /\ links[k] = ResolvedLink(chunks[k].meta)

\* C32 witness: the store answered with a chunk of a course without links
\* before a chunk of lesson 0 of another course; blocks, labels and links
\* keep that order.
C32_Witness ==
    /\ Searched
    /\ ret = Ok("[Intro]\nDoc C\n\n[MCP - Lesson 0]\nDoc A")
    /\ last_sources["search1"].val = <<"Intro", "MCP - Lesson 0">>
    /\ last_source_links["search1"].val = <<None, "https://mcp/0">>

\* C33: for every max_history >= 0, after an even number of add_message calls
\* on a session the length of its history is even (after an odd number it can
\* be odd).
C33_EvenAfterPairs ==
    \A i \in DOMAIN sessions :
        Len(appended[i]) % 2 = 0 => Len(sessions[i]) % 2 = 0

\* C33 witness: with max_history = 1, four calls on one session, two of them
\* trimmed, leave two entries while an odd number of calls on another session
\* leaves an odd number of entries.
C33_Witness ==
    /\ max_history = 1
    /\ \E i \in DOMAIN sessions : Len(appended[i]) = 4 /\ Len(sessions[i]) = 2
    /\ \E j \in DOMAIN sessions :
          Len(appended[j]) % 2 = 1 /\ Len(sessions[j]) % 2 = 1

\* The roles of seq alternate strictly, starting with "user"
Alternating(seq) ==
    \A k \in 1..Len(seq) :
        seq[k].role = IF k % 2 = 1 THEN "user" ELSE "assistant"

\* C34: for max_history >= 1 the history of a session is what is left of the
\* sequence of all messages appended to it after removing an even number of
\* its oldest messages, in the same order and without gaps; while at most
\* 2 * max_history messages have been appended it is all of them; and when
\* the appended roles alternate strictly, starting with user, a non-empty
\* history begins with a user message.
C34_SuffixOfAppended ==
    max_history >= 1 =>
        \A i \in DOMAIN sessions :
            LET removed == Len(appended[i]) - Len(sessions[i])
            IN  /\ removed >= 0
                /\ removed % 2 = 0
                /\ \A k \in 1..Len(sessions[i]) :
                       sessions[i][k] = appended[i][removed + k]
                /\ Len(appended[i]) <= 2 * max_history => sessions[i] = appended[i]
                /\ (Alternating(appended[i]) /\ sessions[i] # <<>>) =>
                       sessions[i][1].role = "user"

\* C34 witness: with max_history = 1, five alternating messages were appended
\* and the history is the fifth, a user message: four were removed.
C34_Witness ==
    /\ max_history = 1
    /\ \E i \in DOMAIN sessions :
          /\ Len(appended[i]) = 5
          /\ Alternating(appended[i])
          /\ sessions[i] = << Message("user", "Hi") >>

(***************************************************************************)
(* InterleavedSpec: two requests share the registry without a critical     *)
(* section.  The tools are registered at startup; each request then makes  *)
(* one execute_tool call, reads the labels, reads the links and resets the *)
(* citations, and the interpreter can switch between the two requests      *)
(* after every call.  turn is the request that is running; threads holds,  *)
(* per request, its position, what its dispatch formatted, what its reads  *)
(* returned and which request had written the labels it read.              *)
(***************************************************************************)
Requests == {1, 2}

\* The request whose dispatch wrote the labels get_last_sources returns now
\* (0 when it returns none)
Writer ==
    IF \A k \in 1..Len(tools) : last_sources[tools[k].tool].val = <<>> THEN 0
    ELSE producedIn[tools[CHOOSE k \in 1..Len(tools) :
                              /\ last_sources[tools[k].tool].val # <<>>
                              /\ \A j \in 1..(k - 1) :
                                     last_sources[tools[j].tool].val = <<>>].tool]

Startup ==
    /\ turn = 0
    /\ \E t \in Instances : register_tool(t)
    /\ UNCHANGED <<svars, cvars>>

\* The interpreter switches to the other request (or starts the first one)
Yield ==
    /\ \E r \in Requests \ {turn} : turn' = r
    /\ UNCHANGED <<svars, tvars, phase, nDispatch, call, threads, op, ret>>

RequestDispatch(r) ==
    /\ turn = r
    /\ threads[r].pc = "start"
    /\ \E n \in ToolNames, p \in Params :
            IF Searches(n, p)
            THEN \E a \in DispatchAnswers : execute_tool(n, p, a)
            ELSE execute_tool(n, p, NoAnswer)
    /\ threads' = [threads EXCEPT ![r] =
            [pc |-> "dispatched",
             produced |-> IF op'.outcome = "formatted"
                          THEN [sources |-> last_sources'[op'.tool].val,
                                links |-> last_source_links'[op'.tool].val]
                          ELSE NoCitations]]
    /\ UNCHANGED <<svars, turn, phase, nDispatch, call>>

RequestReadSources(r) ==
    /\ turn = r
    /\ threads[r].pc = "dispatched"
    /\ get_last_sources
    /\ threads' = [threads EXCEPT ![r] =
            [pc |-> "sources", produced |-> threads[r].produced,
             sources |-> ret'.val, writer |-> Writer]]
    /\ UNCHANGED <<svars, turn, phase, nDispatch, call>>

RequestReadLinks(r) ==
    /\ turn = r
    /\ threads[r].pc = "sources"
    /\ get_last_source_links
    /\ threads' = [threads EXCEPT ![r] =
            [pc |-> "links", produced |-> threads[r].produced,
             sources |-> threads[r].sources, writer |-> threads[r].writer,
             links |-> ret'.val]]
    /\ UNCHANGED <<svars, turn, phase, nDispatch, call>>

RequestReset(r) ==
    /\ turn = r
    /\ threads[r].pc = "links"
    /\ reset_sources
    /\ threads' = [threads EXCEPT ![r].pc = "done"]
    /\ UNCHANGED <<svars, turn, phase, nDispatch, call>>

InterleavedNext ==
    \/ Startup
    \/ Yield
    \/ \E r \in Requests : RequestDispatch(r)
    \/ \E r \in Requests : RequestReadSources(r)
    \/ \E r \in Requests : RequestReadLinks(r)
    \/ \E r \in Requests : RequestReset(r)

InterleavedSpec == ToolsSpecInit /\ [][InterleavedNext]_vars

\* Request r has called get_last_sources
HasRead(r) == "sources" \in DOMAIN threads[r]

\* C35: when two request cycles (execute_tool, get_last_sources and
\* get_last_source_links, reset_sources) interleave on one registry, a read
\* is not tied to the reading request's own dispatch.  After a reset_sources
\* by either request the registry returns nothing until the next formatted
\* result; the labels a request reads are those of the request whose dispatch
\* wrote the first holding tool, which can be the other request; and a
\* request whose own dispatch formatted results reads none only when the
\* other request's reset_sources has run.  Both outcomes are reachable.
C35_ReadsFollowSharedState ==
    /\ sinceReset => LastCitations = NoCitations
    /\ \A r \in Requests :
          HasRead(r) =>
              /\ (threads[r].writer = 0) <=> (threads[r].sources = <<>>)
              /\ threads[r].writer \in Requests =>
                    /\ threads[threads[r].writer].produced # NoCitations
                    /\ threads[r].sources
                           = threads[threads[r].writer].produced.sources
              /\ (threads[r].produced # NoCitations /\ threads[r].sources = <<>>) =>
                    \E q \in Requests \ {r} : threads[q].pc = "done"

\* C35 witness: request 1, whose own dispatch formatted nothing, has read the
\* labels request 2's dispatch produced, and request 2 has read none because
\* request 1's reset_sources came first.
C35_Witness ==
    /\ HasRead(1) /\ HasRead(2)
    /\ threads[1].produced = NoCitations
    /\ threads[1].writer = 2
    /\ threads[1].sources # <<>>
    /\ threads[1].sources = threads[2].produced.sources
    /\ threads[2].sources = <<>>

(***************************************************************************)
(* RaceSpec: two threads call add_message on the same session at once.     *)
(* The session is created and filled by calls that do not overlap; then    *)
(* each of the two threads runs add_message as its four steps: append to   *)
(* the stored list, test the length, take the slice [2:], store the slice  *)
(* as the session's entry.  The threads interleave between the steps.      *)
(***************************************************************************)
Adders == {1, 2}

\* The one session of the run
TheSession == CHOOSE i \in DOMAIN sessions : TRUE

\* No thread has entered add_message
NoneStarted == \A th \in Adders : threads[th].pc = "start"

\* Calls that do not overlap: create the session, then alternate user and
\* assistant messages
Prepare ==
    /\ NoneStarted
    /\ \/ /\ issued = {}
          /\ create_session
       \/ /\ nAdds < MaxAdds
          /\ \E i \in DOMAIN sessions :
               \/ /\ Len(appended[i]) % 2 = 0
                  /\ \E c \in UserContents : add_message(i, "user", c)
               \/ /\ Len(appended[i]) % 2 = 1
                  /\ \E c \in AssistantContents : add_message(i, "assistant", c)
    /\ UNCHANGED <<tvars, cvars>>

\* self.sessions[session_id].append({...}); before records the history the
\* two overlapping calls started from
AddAppend(th) ==
    /\ threads[th].pc = "start"
    /\ DOMAIN sessions # {}
    /\ \E m \in Inputs :
        LET i == TheSession
            other == CHOOSE o \in Adders : o # th
            msg == Message(m[1], m[2])
        IN  /\ sessions' = [sessions EXCEPT ![i] = Append(@, msg)]
            /\ appended' = [appended EXCEPT ![i] = Append(@, msg)]
            /\ threads' = [threads EXCEPT ![th] =
                   [pc |-> "appended", msg |-> msg,
                    before |-> IF threads[other].pc = "start" THEN sessions[i]
                               ELSE threads[other].before]]
            /\ op' = [name |-> "append", thread |-> th]
            /\ ret' = Ok(None)
    /\ nAdds' = nAdds + 1
    /\ UNCHANGED <<max_history, issued, tvars, turn, phase, nDispatch, call>>

\* AddCheck comparing with the length the history had before the append
AddCheckStale(th) ==
    /\ threads[th].pc = "appended"
    /\ threads' = [threads EXCEPT ![th].pc =
           IF Len(threads[th].before) + 1 > max_history * 2 THEN "checked"
           ELSE "returned"]
    /\ op' = [name |-> "check", thread |-> th]
    /\ ret' = Ok(None)
    /\ UNCHANGED <<svars, tvars, turn, phase, nDispatch, call>>

\* if len(self.sessions[session_id]) > self.max_history * 2
AddCheck(th) ==
    /\ threads[th].pc = "appended"
    /\ threads' = [threads EXCEPT ![th].pc =
           IF Len(sessions[TheSession]) > max_history * 2 THEN "checked"
           ELSE "returned"]
    /\ op' = [name |-> "check", thread |-> th]
    /\ ret' = Ok(None)
    /\ UNCHANGED <<svars, tvars, turn, phase, nDispatch, call>>

\* the right-hand side self.sessions[session_id][2:], a new list
AddSlice(th) ==
    /\ threads[th].pc = "checked"
    /\ threads' = [threads EXCEPT ![th] =
           [pc |-> "sliced", msg |-> threads[th].msg, before |-> threads[th].before,
            slice |-> DropFirst(sessions[TheSession], 2)]]
    /\ op' = [name |-> "slice", thread |-> th]
    /\ ret' = Ok(None)
    /\ UNCHANGED <<svars, tvars, turn, phase, nDispatch, call>>

\* self.sessions[session_id] = <the slice>; return
AddAssign(th) ==
    /\ threads[th].pc = "sliced"
    /\ sessions' = [sessions EXCEPT ![TheSession] = threads[th].slice]
    /\ threads' = [threads EXCEPT ![th].pc = "returned"]
    /\ op' = [name |-> "assign", thread |-> th]
    /\ ret' = Ok(None)
    /\ UNCHANGED <<max_history, issued, appended, nAdds, tvars, turn, phase,
                   nDispatch, call>>

RaceNext ==
    \/ Prepare
    \/ \E th \in Adders : AddAppend(th)
    \/ \E th \in Adders : AddCheck(th)
    \/ \E th \in Adders : AddSlice(th)
    \/ \E th \in Adders : AddAssign(th)

RaceSpec == StoreSpecInit /\ [][RaceNext]_vars

\* Both overlapping calls have returned
BothReturned == \A th \in Adders : threads[th].pc = "returned"

\* The history two calls leave when the one appending a runs to its end
\* before the one appending b starts
InOrder(before, a, b) ==
    Trimmed(Append(Trimmed(Append(before, a), max_history), b), max_history)

\* C36 as stated: two add_message calls on one session that interleave
\* between their steps always leave a history that one of the two sequential
\* orders of the calls also produces, within the 2 * max_history bound.
C36_AsIfSequential ==
    BothReturned =>
        /\ \/ sessions[TheSession]
                  = InOrder(threads[1].before, threads[1].msg, threads[2].msg)
           \/ sessions[TheSession]
                  = InOrder(threads[1].before, threads[2].msg, threads[1].msg)
        /\ Len(sessions[TheSession]) <= 2 * max_history

\* The histories left of seq after removing 0, 2 or 4 of its oldest entries
Suffixes(seq) == {DropFirst(seq, k) : k \in {0, 2, 4}}

\* C36 amended: two add_message calls on one session that interleave between
\* their steps leave at most 2 * max_history entries, and what they leave is,
\* for one of the two orders of the appends, the history before the calls
\* followed by the first or by both appended messages, minus an even number
\* of its oldest entries (all entries when fewer are there); it need not be
\* what a sequential order produces, because a message appended while the
\* other call holds its slice is lost.
C36_BoundKeptMessagesMayBeLost ==
    BothReturned =>
        /\ Len(sessions[TheSession]) <= 2 * max_history
        /\ \E x \in Adders :
              \E y \in Adders \ {x} :
                 sessions[TheSession] \in
                     Suffixes(Append(threads[x].before, threads[x].msg))
                     \cup Suffixes(Append(Append(threads[x].before, threads[x].msg),
                                          threads[y].msg))

\* C36 witness: with max_history = 1 and a history of two entries, thread 1
\* took its slice before thread 2 appended and stored it afterwards: the
\* history is the message of thread 1 alone, that of thread 2 is lost.
C36_Witness ==
    /\ BothReturned
    /\ max_history = 1
    /\ Len(threads[1].before) = 2
    /\ threads[1].msg = Message("user", "Hi")
    /\ threads[2].msg = Message("assistant", "Hello")
    /\ sessions[TheSession] = << Message("user", "Hi") >>

\* C37: in every state reached by register_tool, execute_tool and
\* reset_sources calls, every tool object holds as many links as labels (a
\* missing link attribute counting as none), so that the two scans of
\* get_last_sources and get_last_source_links stop at the same registered
\* tool: the labels and the links the registry returns have the same length
\* and are the two lists of one tool, or are both empty.
C37_LabelsAndLinksOfOneTool ==
    /\ \A t \in Instances :
          /\ Len(last_sources[t].val) = Len(last_source_links[t].val)
          /\ ~last_source_links[t].set => last_sources[t].val = <<>>
    /\ Holders(last_sources) = Holders(last_source_links)
    /\ Len(LastCitations.sources) = Len(LastCitations.links)
    /\ \/ LastCitations = NoCitations
       \/ \E k \in 1..Len(tools) :
             /\ LastCitations.sources = last_sources[tools[k].tool].val
             /\ LastCitations.links = last_source_links[tools[k].tool].val
    /\ op.name = "get_last_sources" => ret.val = LastCitations.sources
    /\ op.name = "get_last_source_links" => ret.val = LastCitations.links

\* C37 witness: the tool registered first has no link attribute yet, the
\* second holds two labels and two links, and get_last_source_links has
\* returned the two links.
C37_Witness ==
    /\ op.name = "get_last_source_links"
    /\ Len(tools) = 2
    /\ ~last_source_links[tools[1].tool].set
    /\ Len(LastCitations.sources) = 2
    /\ ret.val = last_source_links[tools[2].tool].val
    /\ Len(ret.val) = 2

\* Session j exists before and after the step, or neither, and its history
\* is the same
Untouched(j) ==
    /\ (j \in DOMAIN sessions) <=> (j \in DOMAIN sessions')
    /\ j \in DOMAIN sessions => sessions'[j] = sessions[j]

\* C38: add_message(id, ...) and delete_session(id) leave the existence and
\* the history of every session but id as they were, and create_session
\* leaves every existing session and its history as they were.
C38_OtherSessionsUntouched ==
    [][/\ op'.name \in {"add_message", "delete_session"} =>
              \A j \in SessionIds \ {op'.id} : Untouched(j)
       /\ op'.name = "create_session" =>
              \A j \in DOMAIN sessions : Untouched(j)]_vars

\* C38 witness: add_message has just trimmed one session while the other
\* session holds two messages.
C38_Witness ==
    /\ op.name = "add_message" /\ ret = Ok(None)
    /\ Len(sessions[op.id]) < Len(appended[op.id])
    /\ \E j \in DOMAIN sessions \ {op.id} : Len(sessions[j]) = 2

(***************************************************************************)
(* AliasSpec: the registry called in any order by a caller that keeps the  *)
(* lists get_last_sources and get_last_source_links returned.  In Python   *)
(* the caller receives the tool's own list object, not a copy.  A held     *)
(* list is recorded in threads[1] as the tool whose attribute is still     *)
(* bound to that object ("none" when no attribute is), the content the     *)
(* object has now, and the content it had when it was returned.            *)
(***************************************************************************)
Held(t, list) == [tool |-> t, val |-> list, was |-> list]

\* The caller holds no list yet
NothingHeld == [pc |-> "held", sources |-> Held("none", <<>>), links |-> Held("none", <<>>)]

\* The caller's locals
Locals == IF threads[1] = NotStarted THEN NothingHeld ELSE threads[1]

\* The tool whose list the scan over attr returns ("none" when the scan
\* finds nothing and [] is returned)
FirstHolder(attr) ==
    IF \A k \in 1..Len(tools) : attr[tools[k].tool].val = <<>> THEN "none"
    ELSE tools[CHOOSE k \in 1..Len(tools) :
                   /\ attr[tools[k].tool].val # <<>>
                   /\ \A j \in 1..(k - 1) : attr[tools[j].tool].val = <<>>].tool

\* The step binds a new list to the attributes of tool t: an execute that
\* formats results (self.last_sources = sources) or a reset_sources over a
\* registered tool (tool.last_sources = [])
Rebound(t) ==
    \/ op'.name = "execute_tool" /\ op'.tool = t /\ op'.outcome = "formatted"
    \/ op'.name = "reset_sources" /\ t \in Registered

\* AfterStep for statements that change the list in place (del list[:],
\* list.extend): the held object stays the tool's and shows the new content
AfterStepInPlace(held, attr) ==
    IF held.tool = "none" THEN held
    ELSE [held EXCEPT !.val = attr'[held.tool].val]

\* A held list after a step: an assignment to the attribute leaves the old
\* object as it is and unbinds it from the tool
AfterStep(held, attr) ==
    IF held.tool = "none" THEN held
    ELSE IF Rebound(held.tool) THEN [held EXCEPT !.tool = "none"]
    ELSE held

\* The caller's locals after a step that returns nothing to keep
Keeps ==
    threads' = [threads EXCEPT ![1] =
                   [pc |-> "held",
                    sources |-> AfterStep(Locals.sources, last_sources),
                    links |-> AfterStep(Locals.links, last_source_links)]]

\* register_tool of a search tool or an outline tool
AliasRegister ==
    /\ \E t \in {"search1", "outline1"} : register_tool(t)
    /\ Keeps
    /\ UNCHANGED <<svars, turn, phase, nDispatch, call>>

\* execute_tool for a registered name
AliasExecute ==
    /\ \E n \in Names(tools), p \in Params :
            IF Searches(n, p)
            THEN \E a \in DispatchAnswers : execute_tool(n, p, a)
            ELSE execute_tool(n, p, NoAnswer)
    /\ Keeps
    /\ UNCHANGED <<svars, turn, phase, nDispatch, call>>

\* sources = tool_manager.get_last_sources()
AliasReadSources ==
    /\ get_last_sources
    /\ threads' = [threads EXCEPT ![1] =
                      [pc |-> "held",
                       sources |-> Held(FirstHolder(last_sources), ret'.val),
                       links |-> Locals.links]]
    /\ UNCHANGED <<svars, turn, phase, nDispatch, call>>

\* links = tool_manager.get_last_source_links()
AliasReadLinks ==
    /\ get_last_source_links
    /\ threads' = [threads EXCEPT ![1] =
                      [pc |-> "held",
                       sources |-> Locals.sources,
                       links |-> Held(FirstHolder(last_source_links), ret'.val)]]
    /\ UNCHANGED <<svars, turn, phase, nDispatch, call>>

AliasReset ==
    /\ reset_sources
    /\ Keeps
    /\ UNCHANGED <<svars, turn, phase, nDispatch, call>>

AliasNext ==
    \/ AliasRegister
    \/ AliasExecute
    \/ AliasReadSources
    \/ AliasReadLinks
    \/ AliasReset

AliasSpec == ToolsSpecInit /\ [][AliasNext]_vars

\* The held list has the content it was returned with and, while a tool's
\* attribute is bound to it, is what that attribute holds
Intact(held, attr) ==
    /\ held.val = held.was
    /\ held.tool # "none" => attr[held.tool].val = held.val

SuppliedLinks ==
    ({get_course_link(c) : c \in {"MCP", "Intro"}}
     \cup {get_lesson_link(c, n) : c \in {"MCP", "Intro"}, n \in 0..2}
     \cup {get_course_by_title("MCP").link}) \ {None, ""}

\* C40: every link in a tool's citation state is a link the content store
\* supplied or is absent (None); after an outline execute for a course
\* without a link the citation's link is absent, and the text
\* "No link available" is in no tool's citation state.
C40_LinkRealOrAbsent ==
    /\ \A t \in Instances :
          \A k \in 1..Len(last_source_links[t].val) :
              /\ last_source_links[t].val[k] \in SuppliedLinks \cup {None}
              /\ last_source_links[t].val[k] # "No link available"
    /\ (Outlined /\ "link" \notin DOMAIN OutlinedCourse) =>
          last_source_links["outline1"].val = <<None>>

====
